---- MODULE Spec2Model ----
(***************************************************************************)
(* Model of the iroha_crypto key layer (src/crypto/src/lib.rs): Algorithm, *)
(* PublicKey, PrivateKey, KeyPair, key generation, hex and multihash text  *)
(* forms, structural (serde) and binary (SCALE) serialization.             *)
(*                                                                         *)
(* Text is modelled as a sequence of one-character strings, a byte as an   *)
(* integer in 0..255, a Vec<u8> as a sequence of bytes.  A call's outcome  *)
(* is Ok(v), Err(e) or Abort(msg); Abort is a Rust panic (`expect`).       *)
(***************************************************************************)
EXTENDS Integers, Sequences, FiniteSets, TLC

(***************************************************************************)
(* Bounds of the model.                                                    *)
(***************************************************************************)
\* number of distinct secrets the OS random generator may hand out
NumSecrets == 2
\* seeds are the one-byte vectors <<1>> .. <<MaxSeed>>
MaxSeed == 2

\* longest message signed
MaxMessage == 2

\* most leaves of a Merkle tree
MaxLeaves == 5

\* worker threads that call the operations at once
NumThreads == 2

(***************************************************************************)
(* Results.                                                                *)
(***************************************************************************)
Ok(v) == [tag |-> "Ok", val |-> v]

Err(e) == [tag |-> "Err", val |-> e]

Abort(msg) == [tag |-> "Abort", val |-> msg]

\* enum Error, lib.rs:492-514 (variant and its detail string)
Error(class, detail) == [class |-> class, detail |-> detail]

(***************************************************************************)
(* Algorithm, lib.rs:55-104.                                               *)
(***************************************************************************)
ED_25519 == <<"e", "d", "2", "5", "5", "1", "9">>

SECP_256_K1 == <<"s", "e", "c", "p", "2", "5", "6", "k", "1">>

BLS_NORMAL == <<"b", "l", "s", "_", "n", "o", "r", "m", "a", "l">>

BLS_SMALL == <<"b", "l", "s", "_", "s", "m", "a", "l", "l">>

\* the variants in declaration order (the derived Ord and the SCALE index)
AlgorithmVariants == <<"Ed25519", "Secp256k1", "BlsNormal", "BlsSmall">>

Algorithm == {AlgorithmVariants[i] : i \in 1..Len(AlgorithmVariants)}

\* #[default] Ed25519
Algorithm_default == "Ed25519"

\* derive(Display) with #[display(fmt = ...)]
Algorithm_to_string(a) ==
    CASE a = "Ed25519" -> ED_25519
      [] a = "Secp256k1" -> SECP_256_K1
      [] a = "BlsNormal" -> BLS_NORMAL
      [] a = "BlsSmall" -> BLS_SMALL

\* impl FromStr for Algorithm (a mutant: two arms swapped)
Algorithm_from_str_swapped(algorithm) ==
    CASE algorithm = ED_25519 -> Ok("Ed25519")
      [] algorithm = SECP_256_K1 -> Ok("Secp256k1")
      [] algorithm = BLS_NORMAL -> Ok("BlsSmall")
      [] algorithm = BLS_SMALL -> Ok("BlsNormal")
      [] OTHER -> Err("NoSuchAlgorithm")

\* impl FromStr for Algorithm
Algorithm_from_str(algorithm) ==
    CASE algorithm = ED_25519 -> Ok("Ed25519")
      [] algorithm = SECP_256_K1 -> Ok("Secp256k1")
      [] algorithm = BLS_NORMAL -> Ok("BlsNormal")
      [] algorithm = BLS_SMALL -> Ok("BlsSmall")
      [] OTHER -> Err("NoSuchAlgorithm")

(***************************************************************************)
(* Hex (crate `hex` behind hex_decode, hex::encode, hex::encode_upper).    *)
(***************************************************************************)
HexLowerDigits ==
    <<"0", "1", "2", "3", "4", "5", "6", "7", "8", "9", "a", "b", "c", "d", "e", "f">>

HexUpperDigits ==
    <<"0", "1", "2", "3", "4", "5", "6", "7", "8", "9", "A", "B", "C", "D", "E", "F">>

\* value of each hex digit, either case
HexDigitValue ==
    [c \in {HexLowerDigits[v] : v \in 1..16} \cup {HexUpperDigits[v] : v \in 1..16} |->
        (CHOOSE v \in 1..16 : HexLowerDigits[v] = c \/ HexUpperDigits[v] = c) - 1]

IsHexDigit(c) == c \in DOMAIN HexDigitValue

HexVal(c) == HexDigitValue[c]

\* hex::encode
hex_encode(bytes) ==
    [i \in 1..(2 * Len(bytes)) |->
        IF i % 2 = 1 THEN HexLowerDigits[(bytes[(i + 1) \div 2] \div 16) + 1]
                     ELSE HexLowerDigits[(bytes[i \div 2] % 16) + 1]]

\* hex::encode_upper
hex_encode_upper(bytes) ==
    [i \in 1..(2 * Len(bytes)) |->
        IF i % 2 = 1 THEN HexUpperDigits[(bytes[(i + 1) \div 2] \div 16) + 1]
                     ELSE HexUpperDigits[(bytes[i \div 2] % 16) + 1]]

\* hex::decode: odd length and non-hex characters are errors, both cases accepted
hex_crate_decode(s) ==
    IF Len(s) % 2 = 1 THEN Err("OddLength")
    ELSE IF \E i \in 1..Len(s) : ~IsHexDigit(s[i]) THEN Err("InvalidHexCharacter")
    ELSE Ok([i \in 1..(Len(s) \div 2) |-> 16 * HexVal(s[2 * i - 1]) + HexVal(s[2 * i])])

IsNotSpace(c) == c # " "

\* hex_decode that does not drop the spaces (a mutant)
hex_decode_no_filter(payload) ==
    LET decoded == hex_crate_decode(payload)
    IN  IF decoded.tag = "Ok" THEN decoded ELSE Err(Error("Parse", decoded.val))

\* hex_decode, lib.rs:479-488: drop the spaces, then hex::decode, errors as Parse
hex_decode(payload) ==
    LET filtered == SelectSeq(payload, IsNotSpace)
        decoded == hex_crate_decode(filtered)
    IN  IF decoded.tag = "Ok" THEN decoded ELSE Err(Error("Parse", decoded.val))

(***************************************************************************)
(* The signature schemes of the `ursa` library, as the calls at            *)
(* lib.rs:249-254 and lib.rs:330-335 use them.  `keypair(option)` returns  *)
(* (public, private) byte vectors or an ursa::CryptoError.  The group      *)
(* arithmetic is replaced by injective byte maps; what is kept is what the *)
(* callers depend on: the key sizes of the fixtures (lib.rs:653-893), the  *)
(* determinism of the derivation, that a private key returned by `keypair` *)
(* derives the public key returned with it, and that a payload of the      *)
(* wrong size for the scheme is refused (tests::invalid_private_key).      *)
(***************************************************************************)
\* an n-byte vector determined by k
Bytes(n, k) == [i \in 1..n |-> (k * 37 + i * 11) % 256]

\* Ed25519: 32-byte secret, 32-byte public; the private payload is secret ++ public
EdPublic(secret) == [i \in 1..32 |-> (secret[i] * 3 + 1) % 256]

\* Secp256k1: 32-byte scalar, 33-byte compressed point
SecpPublic(sk) == <<2 + (sk[32] % 2)>> \o [i \in 1..32 |-> (sk[i] * 5 + 7) % 256]

\* BLS: 48-byte scalar; 97-byte (normal) and 193-byte (small) public keys
BlsNormalPublic(sk) == <<4>> \o [i \in 1..96 |-> (sk[((i - 1) % 48) + 1] * 3 + i) % 256]

BlsSmallPublic(sk) == <<4>> \o [i \in 1..192 |-> (sk[((i - 1) % 48) + 1] * 7 + i) % 256]

\* whether the scheme accepts the bytes as a secret key
SchemeAccepts(algorithm, sk) ==
    CASE algorithm = "Ed25519" -> Len(sk) = 64
      [] algorithm = "Secp256k1" -> Len(sk) = 32 /\ \E i \in 1..32 : sk[i] # 0
      [] algorithm \in {"BlsNormal", "BlsSmall"} -> Len(sk) = 48

\* the public key the scheme derives from an accepted secret key
SchemePublic(algorithm, sk) ==
    CASE algorithm = "Ed25519" -> SubSeq(sk, 33, 64)
      [] algorithm = "Secp256k1" -> SecpPublic(sk)
      [] algorithm = "BlsNormal" -> BlsNormalPublic(sk)
      [] algorithm = "BlsSmall" -> BlsSmallPublic(sk)

\* the private payload the scheme builds from k units of entropy
SchemeSecret(algorithm, k) ==
    CASE algorithm = "Ed25519" -> Bytes(32, k) \o EdPublic(Bytes(32, k))
      [] algorithm = "Secp256k1" -> Bytes(32, k)
      [] algorithm \in {"BlsNormal", "BlsSmall"} -> Bytes(48, k)

\* the entropy a seed expands to (a digest of the seed in ursa)
SeedEntropy(seed) == 16 + (IF Len(seed) = 0 THEN 0 ELSE seed[1] % 16)

\* ursa's KeyGenOption (None, UseSeed, FromSecretKey) in one record shape
UrsaOption(kind, bytes) == [kind |-> kind, bytes |-> bytes]

\* SignatureScheme::keypair of the scheme of `algorithm`: `entropy` is what the OS
\* generator yields (used without an option), `fault` the ursa::CryptoError variant
\* the scheme raises when it refuses a secret key
UrsaKeypair(algorithm, option, entropy, fault) ==
    LET sk == CASE option.kind = "None" -> SchemeSecret(algorithm, entropy)
                [] option.kind = "UseSeed" -> SchemeSecret(algorithm, SeedEntropy(option.bytes))
                [] option.kind = "FromSecretKey" -> option.bytes
    IN  IF option.kind = "FromSecretKey" /\ ~SchemeAccepts(algorithm, sk)
        THEN Err([variant |-> fault, detail |-> "invalid secret key"])
        ELSE Ok([public |-> SchemePublic(algorithm, sk), private |-> sk])

\* the ursa::CryptoError variants a scheme raises for a refused secret key
UrsaKeyFaults == {"ParseError", "KeyGenError"}

(***************************************************************************)
(* Errors.                                                                 *)
(***************************************************************************)
\* From<ursa::CryptoError> with the Signing and KeyGen arms exchanged (a mutant)
Error_from_ursa_exchanged(source) ==
    CASE source.variant = "NoSuchAlgorithm" -> Error("NoSuchAlgorithm", "")
      [] source.variant = "ParseError" -> Error("Parse", source.detail)
      [] source.variant = "SigningError" -> Error("KeyGen", source.detail)
      [] source.variant = "KeyGenError" -> Error("Signing", source.detail)
      [] source.variant = "DigestGenError" -> Error("DigestGen", source.detail)
      [] source.variant = "GeneralError" -> Error("Other", source.detail)

\* impl From<ursa::CryptoError> for Error, lib.rs:517-528
Error_from_ursa(source) ==
    CASE source.variant = "NoSuchAlgorithm" -> Error("NoSuchAlgorithm", "")
      [] source.variant = "ParseError" -> Error("Parse", source.detail)
      [] source.variant = "SigningError" -> Error("Signing", source.detail)
      [] source.variant = "KeyGenError" -> Error("KeyGen", source.detail)
      [] source.variant = "DigestGenError" -> Error("DigestGen", source.detail)
      [] source.variant = "GeneralError" -> Error("Other", source.detail)

\* impl From<NoSuchAlgorithm> for Error, lib.rs:181-185
Error_from_NoSuchAlgorithm == Error("NoSuchAlgorithm", "")

(***************************************************************************)
(* Keys.                                                                   *)
(***************************************************************************)
\* struct PublicKey, lib.rs:299-304
PublicKey(digest_function, payload) ==
    [digest_function |-> digest_function, payload |-> payload]

\* struct PrivateKey, lib.rs:385-391
PrivateKey(digest_function, payload) ==
    [digest_function |-> digest_function, payload |-> payload]

\* struct KeyPair, lib.rs:172-177
KeyPair(public_key, private_key) ==
    [public_key |-> public_key, private_key |-> private_key]

\* no key held
NoKey == [digest_function |-> "None", payload |-> <<>>]

NoKeyPair == KeyPair(NoKey, NoKey)

\* PublicKey::try_from_private, lib.rs:324-341
try_from_private(private_key, fault) ==
    LET digest_function == private_key.digest_function
        key_gen_option == UrsaOption("FromSecretKey", private_key.payload)
        pair == UrsaKeypair(digest_function, key_gen_option, 0, fault)
    IN  IF pair.tag = "Err" THEN Err(Error_from_ursa(pair.val))
        ELSE Ok(PublicKey(private_key.digest_function, pair.val.public))

\* impl From<PrivateKey> for PublicKey, lib.rs:375-379: `expect` on the derivation
PublicKey_from(private_key, fault) ==
    LET derived == try_from_private(private_key, fault)
    IN  IF derived.tag = "Ok" THEN derived
        ELSE Abort("can't fail for valid PrivateKey")

\* KeyPair::new that derives the public key before it compares the algorithms
\* (a mutant)
KeyPair_new_derive_first(public_key, private_key, fault) ==
    LET algorithm == private_key.digest_function
        derived == PublicKey_from(private_key, fault)
    IN  IF derived.tag = "Abort" THEN derived
        ELSE IF algorithm # public_key.digest_function
        THEN Err(Error("KeyGen", "Mismatch of key algorithms"))
        ELSE IF derived.val # public_key
        THEN Err(Error("KeyGen", "Key pair mismatch"))
        ELSE Ok(KeyPair(public_key, private_key))

\* KeyPair::new, lib.rs:211-226
KeyPair_new(public_key, private_key, fault) ==
    LET algorithm == private_key.digest_function
        derived == PublicKey_from(private_key, fault)
    IN  IF algorithm # public_key.digest_function
        THEN Err(Error("KeyGen", "Mismatch of key algorithms"))
        ELSE IF derived.tag = "Abort" THEN derived
        ELSE IF derived.val # public_key
        THEN Err(Error("KeyGen", "Key pair mismatch"))
        ELSE Ok(KeyPair(public_key, private_key))

\* PrivateKey::from_hex_unchecked that validates as from_hex does (a mutant)
from_hex_unchecked_validating(digest_function, payload) ==
    LET decoded == hex_decode(payload)
    IN  IF decoded.tag = "Err" THEN decoded
        ELSE LET private_key_candidate == PrivateKey(digest_function, decoded.val)
                 pair == UrsaKeypair(digest_function,
                                     UrsaOption("FromSecretKey", decoded.val), 0, "KeyGenError")
             IN  IF pair.tag = "Err" THEN Err(Error_from_ursa(pair.val))
                 ELSE Ok(private_key_candidate)

\* PrivateKey::from_hex_unchecked, lib.rs:423-431
from_hex_unchecked(digest_function, payload) ==
    LET decoded == hex_decode(payload)
    IN  IF decoded.tag = "Err" THEN decoded
        ELSE Ok(PrivateKey(digest_function, decoded.val))

\* PrivateKey::from_hex without the derivation (a mutant)
from_hex_no_validation(digest_function, payload, fault) ==
    LET decoded == hex_decode(payload)
    IN  IF decoded.tag = "Err" THEN decoded
        ELSE Ok(PrivateKey(digest_function, decoded.val))

\* PrivateKey::from_hex, lib.rs:440-455
from_hex(digest_function, payload, fault) ==
    LET decoded == hex_decode(payload)
    IN  IF decoded.tag = "Err" THEN decoded
        ELSE LET private_key_candidate == PrivateKey(digest_function, decoded.val)
                 derived == try_from_private(private_key_candidate, fault)
             IN  IF derived.tag = "Err" THEN derived
                 ELSE Ok(PrivateKey(digest_function, decoded.val))

(***************************************************************************)
(* Key generation.                                                         *)
(***************************************************************************)
\* Option<KeyGenOption>, lib.rs:108-113, in one record shape
KeyGenOption(kind, seed, key) == [kind |-> kind, seed |-> seed, key |-> key]

NoOption == KeyGenOption("None", <<>>, NoKey)

\* struct KeyGenConfiguration, lib.rs:138-143
KeyGenConfiguration(key_gen_option, algorithm) ==
    [key_gen_option |-> key_gen_option, algorithm |-> algorithm]

\* derive(Default)
KeyGenConfiguration_default == KeyGenConfiguration(NoOption, Algorithm_default)

\* KeyGenConfiguration::use_seed, lib.rs:148-151
use_seed(self, seed) ==
    [self EXCEPT !.key_gen_option = KeyGenOption("UseSeed", seed, NoKey)]

\* KeyGenConfiguration::use_private_key, lib.rs:155-158
use_private_key(self, private_key) ==
    [self EXCEPT !.key_gen_option = KeyGenOption("FromPrivateKey", <<>>, private_key)]

\* KeyGenConfiguration::with_algorithm that starts from the default configuration
\* (a mutant)
with_algorithm_from_default(self, algorithm) ==
    [KeyGenConfiguration_default EXCEPT !.algorithm = algorithm]

\* KeyGenConfiguration::with_algorithm, lib.rs:162-165
with_algorithm(self, algorithm) == [self EXCEPT !.algorithm = algorithm]

\* impl TryFrom<KeyGenOption> for UrsaKeyGenOption, lib.rs:116-134, under
\* Option::map and transpose (lib.rs:245-248)
UrsaKeyGenOption_try_from(key_gen_option) ==
    CASE key_gen_option.kind = "None" -> Ok(UrsaOption("None", <<>>))
      [] key_gen_option.kind = "UseSeed" -> Ok(UrsaOption("UseSeed", key_gen_option.seed))
      [] key_gen_option.kind = "FromPrivateKey" ->
            LET algorithm == key_gen_option.key.digest_function
            IN  IF algorithm \in {"Ed25519", "Secp256k1"}
                THEN Ok(UrsaOption("FromSecretKey", key_gen_option.key.payload))
                ELSE Err("NoSuchAlgorithm")

\* generate_with_configuration tagging the private key with the supplied key's
\* algorithm (a mutant)
generate_with_configuration_key_tag(configuration, entropy, fault) ==
    LET key_gen_option == UrsaKeyGenOption_try_from(configuration.key_gen_option)
        pair == UrsaKeypair(configuration.algorithm, key_gen_option.val, entropy, fault)
        tag == IF configuration.key_gen_option.kind = "FromPrivateKey"
               THEN configuration.key_gen_option.key.digest_function
               ELSE configuration.algorithm
    IN  IF key_gen_option.tag = "Err" THEN Err(Error_from_NoSuchAlgorithm)
        ELSE IF pair.tag = "Err" THEN Err(Error_from_ursa(pair.val))
        ELSE Ok(KeyPair(PublicKey(configuration.algorithm, pair.val.public),
                        PrivateKey(tag, pair.val.private)))

\* generate_with_configuration tagging the public key with the supplied key's
\* algorithm (a mutant)
generate_with_configuration_public_tag(configuration, entropy, fault) ==
    LET key_gen_option == UrsaKeyGenOption_try_from(configuration.key_gen_option)
        pair == UrsaKeypair(configuration.algorithm, key_gen_option.val, entropy, fault)
        tag == IF configuration.key_gen_option.kind = "FromPrivateKey"
               THEN configuration.key_gen_option.key.digest_function
               ELSE configuration.algorithm
    IN  IF key_gen_option.tag = "Err" THEN Err(Error_from_NoSuchAlgorithm)
        ELSE IF pair.tag = "Err" THEN Err(Error_from_ursa(pair.val))
        ELSE Ok(KeyPair(PublicKey(tag, pair.val.public),
                        PrivateKey(configuration.algorithm, pair.val.private)))

\* KeyPair::generate_with_configuration, lib.rs:242-266
generate_with_configuration(configuration, entropy, fault) ==
    LET digest_function == configuration.algorithm
        key_gen_option == UrsaKeyGenOption_try_from(configuration.key_gen_option)
        pair == UrsaKeypair(configuration.algorithm, key_gen_option.val, entropy, fault)
    IN  IF key_gen_option.tag = "Err" THEN Err(Error_from_NoSuchAlgorithm)
        ELSE IF pair.tag = "Err" THEN Err(Error_from_ursa(pair.val))
        ELSE Ok(KeyPair(PublicKey(digest_function, pair.val.public),
                        PrivateKey(digest_function, pair.val.private)))

\* KeyPair::generate, lib.rs:233-235
generate(entropy, fault) ==
    generate_with_configuration(KeyGenConfiguration_default, entropy, fault)

(***************************************************************************)
(* Multihash text form of a PublicKey.  Module `multihash` (lib.rs:10) and *)
(* its varint are not part of the visible source; they are modelled from   *)
(* the specification (varint function code, digest size, payload) and from *)
(* the fixtures of tests::display_public_key (lib.rs:730-783), which fix   *)
(* the four function codes and show the digest size to be one raw byte     *)
(* holding payload.len() (0xc1 for the 193-byte BlsSmall key).             *)
(***************************************************************************)
ED_25519_PUB == 237

SECP_256_K1_PUB == 231

BLS12_381_G1_PUB == 234

BLS12_381_G2_PUB == 235

\* multihash function code of an algorithm
DigestFunctionCode(algorithm) ==
    CASE algorithm = "Ed25519" -> ED_25519_PUB
      [] algorithm = "Secp256k1" -> SECP_256_K1_PUB
      [] algorithm = "BlsNormal" -> BLS12_381_G1_PUB
      [] algorithm = "BlsSmall" -> BLS12_381_G2_PUB

\* unsigned varint (LEB128) of n, low group first
RECURSIVE VarUintEncode(_)
VarUintEncode(n) ==
    IF n < 128 THEN <<n>> ELSE <<128 + (n % 128)>> \o VarUintEncode(n \div 128)

\* value of an unsigned varint
RECURSIVE VarUintDecode(_)
VarUintDecode(bytes) ==
    IF Len(bytes) = 0 THEN 0
    ELSE (bytes[1] % 128) + 128 * VarUintDecode(Tail(bytes))

\* Vec<u8>::try_from(&Multihash): varint(code) ++ size byte ++ payload
Multihash_to_bytes(public_key) ==
    IF Len(public_key.payload) > 255 THEN Err("Digest size can't fit into u8")
    ELSE Ok(VarUintEncode(DigestFunctionCode(public_key.digest_function))
            \o <<Len(public_key.payload)>> \o public_key.payload)

\* Multihash::try_from(bytes) followed by Into<PublicKey>
Multihash_from_bytes(bytes) ==
    LET ends == {i \in 1..Len(bytes) : bytes[i] < 128}
        idx == CHOOSE i \in ends : \A j \in ends : i <= j
        code == VarUintDecode(SubSeq(bytes, 1, idx))
        known == {a \in Algorithm : DigestFunctionCode(a) = code}
        payload == SubSeq(bytes, idx + 2, Len(bytes))
    IN  IF ends = {} THEN Err("Failed to find last byte(byte smaller than 128)")
        ELSE IF known = {} THEN Err("The specified digest function is not supported.")
        ELSE IF Len(bytes) < idx + 1 THEN Err("Digest size not found")
        ELSE IF Len(payload) # bytes[idx + 1]
        THEN Err("Digest size not equal to actual length")
        ELSE Ok(PublicKey(CHOOSE a \in known : TRUE, payload))

\* FromStr for PublicKey with its failures put in the KeyGen class (a mutant)
PublicKey_from_str_key_gen(key) ==
    LET bytes == hex_decode(key)
        multihash == Multihash_from_bytes(bytes.val)
    IN  IF bytes.tag = "Err" THEN Err(Error("KeyGen", bytes.val.detail))
        ELSE IF multihash.tag = "Err" THEN Err(Error("KeyGen", multihash.val))
        ELSE multihash

\* impl FromStr for PublicKey, lib.rs:344-355
PublicKey_from_str(key) ==
    LET bytes == hex_decode(key)
        multihash == Multihash_from_bytes(bytes.val)
    IN  IF bytes.tag = "Err" THEN Err(Error("Parse", bytes.val.detail))
        ELSE IF multihash.tag = "Err" THEN Err(Error("Parse", multihash.val))
        ELSE multihash

\* the first n elements of a sequence (Iterator::take(n).collect())
Take(seq, n) == SubSeq(seq, 1, IF n < Len(seq) THEN n ELSE Len(seq))

\* the elements after the first n
Drop(seq, n) == SubSeq(seq, n + 1, Len(seq))

\* Display for PublicKey with the payload in lower case (a mutant)
PublicKey_to_string_lower(public_key) ==
    LET bytes == Multihash_to_bytes(public_key)
    IN  IF bytes.tag = "Err" THEN Abort("Failed to convert multihash to bytes.")
        ELSE Ok(hex_encode(bytes.val))

\* Display for PublicKey with every part in upper case (a mutant)
PublicKey_to_string_upper(public_key) ==
    LET bytes == Multihash_to_bytes(public_key)
    IN  IF bytes.tag = "Err" THEN Abort("Failed to convert multihash to bytes.")
        ELSE Ok(hex_encode_upper(bytes.val))

\* Display for PublicKey that skips the size byte (a mutant)
PublicKey_to_string_no_size(public_key) ==
    LET bytes == Multihash_to_bytes(public_key)
    IN  IF bytes.tag = "Err" THEN Abort("Failed to convert multihash to bytes.")
        ELSE Ok(hex_encode(Take(bytes.val, 2)) \o hex_encode_upper(Drop(bytes.val, 3)))

\* impl Display for PublicKey, lib.rs:357-372
PublicKey_to_string(public_key) ==
    LET bytes == Multihash_to_bytes(public_key)
        fn_code == hex_encode(Take(bytes.val, 2))
        dig_size == hex_encode(Take(Drop(bytes.val, 2), 1))
        key == hex_encode_upper(Drop(bytes.val, 3))
    IN  IF bytes.tag = "Err" THEN Abort("Failed to convert multihash to bytes.")
        ELSE Ok(fn_code \o dig_size \o key)

\* impl Display for PrivateKey, lib.rs:394-398
PrivateKey_to_string(private_key) == hex_encode_upper(private_key.payload)

(***************************************************************************)
(* Structural (serde) serialization.  A record is modelled by its fields,  *)
(* each a text.                                                            *)
(***************************************************************************)
\* derive(SerializeDisplay) for Algorithm, lib.rs:73
Algorithm_serialize(algorithm) == Algorithm_to_string(algorithm)

\* derive(SerializeDisplay) for PublicKey, lib.rs:297
PublicKey_serialize(public_key) == PublicKey_to_string(public_key).val

\* derive(DeserializeFromStr) for PublicKey, lib.rs:297
PublicKey_deserialize(text) ==
    LET parsed == PublicKey_from_str(text)
    IN  IF parsed.tag = "Err" THEN Err(Error("Custom", parsed.val.class)) ELSE parsed

\* derive(Serialize) for PrivateKey writing the variant's identifier instead of its
\* displayed name (a mutant)
PrivateKey_serialize_variant_name(private_key) ==
    [digest_function |-> <<private_key.digest_function>>,
     payload |-> hex_encode(private_key.payload)]

\* derive(Serialize) for PrivateKey, lib.rs:383-391: payload with hex::serde
PrivateKey_serialize(private_key) ==
    [digest_function |-> Algorithm_serialize(private_key.digest_function),
     payload |-> hex_encode(private_key.payload)]

\* Deserialize for PrivateKey through the unchecked constructor (a mutant)
PrivateKey_deserialize_unchecked(record, fault) ==
    LET digest_function == Algorithm_from_str(record.digest_function)
        private_key == from_hex_unchecked(digest_function.val, record.payload)
    IN  IF digest_function.tag = "Err" THEN Err(Error("Custom", "NoSuchAlgorithm"))
        ELSE IF private_key.tag = "Err" THEN Err(Error("Custom", private_key.val.class))
        ELSE private_key

\* impl Deserialize for PrivateKey, lib.rs:459-476
PrivateKey_deserialize(record, fault) ==
    LET digest_function == Algorithm_from_str(record.digest_function)
        private_key == from_hex(digest_function.val, record.payload, fault)
    IN  IF digest_function.tag = "Err" THEN Err(Error("Custom", "NoSuchAlgorithm"))
        ELSE IF private_key.tag = "Err" THEN Err(Error("Custom", private_key.val.class))
        ELSE private_key

\* derive(Serialize) for KeyPair, lib.rs:170-177
KeyPair_serialize(key_pair) ==
    [public_key |-> PublicKey_serialize(key_pair.public_key),
     private_key |-> PrivateKey_serialize(key_pair.private_key)]

\* impl Deserialize for KeyPair, lib.rs:270-287
KeyPair_deserialize(record, fault) ==
    LET public_key == PublicKey_deserialize(record.public_key)
        private_key == PrivateKey_deserialize(record.private_key, fault)
        key_pair == KeyPair_new(public_key.val, private_key.val, fault)
    IN  IF public_key.tag = "Err" THEN public_key
        ELSE IF private_key.tag = "Err" THEN private_key
        ELSE IF key_pair.tag = "Err" THEN Err(Error("Custom", key_pair.val.class))
        ELSE key_pair

(***************************************************************************)
(* Binary (SCALE) encoding, derive(Encode, Decode) at lib.rs:73 and 297.   *)
(* A decoder returns the value and the input left over.                    *)
(***************************************************************************)
Decoded(value, rest) == [value |-> value, rest |-> rest]

\* index of a variant in declaration order, from 0
AlgorithmIndex(algorithm) ==
    (CHOOSE i \in 1..Len(AlgorithmVariants) : AlgorithmVariants[i] = algorithm) - 1

\* derive(Encode) for Algorithm: the variant index in one byte
Algorithm_encode(algorithm) == <<AlgorithmIndex(algorithm)>>

\* derive(Decode) for Algorithm
Algorithm_decode(input) ==
    IF Len(input) = 0 THEN Err("Not enough data to fill buffer")
    ELSE IF input[1] >= Len(AlgorithmVariants)
    THEN Err("Could not decode `Algorithm`, variant doesn't exist")
    ELSE Ok(Decoded(AlgorithmVariants[input[1] + 1], Tail(input)))

\* Compact<u32> of a length (SCALE compact integer, little endian)
Compact_encode(n) ==
    IF n < 64 THEN <<4 * n>>
    ELSE IF n < 16384 THEN <<(4 * n + 1) % 256, (4 * n + 1) \div 256>>
    ELSE <<(4 * n + 2) % 256, ((4 * n + 2) \div 256) % 256,
           ((4 * n + 2) \div 65536) % 256, (4 * n + 2) \div 16777216>>

\* Compact<u32>::decode; a value in a wider mode than it needs is refused
Compact_decode(input) ==
    IF Len(input) = 0 THEN Err("Not enough data to fill buffer")
    ELSE LET mode == input[1] % 4
         IN  CASE mode = 0 -> Ok(Decoded(input[1] \div 4, Tail(input)))
               [] mode = 1 ->
                    IF Len(input) < 2 THEN Err("Not enough data to fill buffer")
                    ELSE LET x == (input[1] + 256 * input[2]) \div 4
                         IN  IF x < 64 THEN Err("out of range decoding Compact<u32>")
                             ELSE Ok(Decoded(x, Drop(input, 2)))
               [] mode = 2 ->
                    IF Len(input) < 4 THEN Err("Not enough data to fill buffer")
                    ELSE LET x == (input[1] + 256 * input[2] + 65536 * input[3]
                                   + 16777216 * input[4]) \div 4
                         IN  IF x < 16384 THEN Err("out of range decoding Compact<u32>")
                             ELSE Ok(Decoded(x, Drop(input, 4)))
               [] OTHER -> Err("unexpected prefix decoding Compact<u32>")

\* derive(Encode) for PublicKey with the length as one plain byte (a mutant)
PublicKey_encode_byte_length(public_key) ==
    Algorithm_encode(public_key.digest_function)
        \o <<Len(public_key.payload) % 256>> \o public_key.payload

\* derive(Encode) for PublicKey: the fields in order
PublicKey_encode(public_key) ==
    Algorithm_encode(public_key.digest_function)
        \o Compact_encode(Len(public_key.payload)) \o public_key.payload

\* derive(Decode) for PublicKey
PublicKey_decode(input) ==
    LET digest_function == Algorithm_decode(input)
        length == Compact_decode(digest_function.val.rest)
        body == length.val.rest
    IN  IF digest_function.tag = "Err" THEN digest_function
        ELSE IF length.tag = "Err" THEN length
        ELSE IF Len(body) < length.val.value THEN Err("Not enough data to fill buffer")
        ELSE Ok(Decoded(PublicKey(digest_function.val.value, Take(body, length.val.value)),
                        Drop(body, length.val.value)))

(***************************************************************************)
(* Signing and verification.  Module `signature` (lib.rs:6,                *)
(* `pub use signature::*`) is not part of the visible source; sign and     *)
(* verify are modelled from the specification: sign dispatches on the      *)
(* private key's algorithm and fails in the Signing class when the scheme  *)
(* refuses the key; verify is false when the algorithms of signature and   *)
(* key differ or when the scheme's verification fails.  The schemes        *)
(* themselves are ideal: a signature binds the public key of the signing   *)
(* secret and the message, and nothing else verifies.                      *)
(***************************************************************************)
\* Signature: digest function and payload
Signature(digest_function, payload) ==
    [digest_function |-> digest_function, payload |-> payload]

\* SignatureScheme::sign of the scheme of `algorithm`
UrsaSign(algorithm, sk, message) == SchemePublic(algorithm, sk) \o message

\* SignatureScheme::verify of the scheme of `algorithm`
UrsaVerify(algorithm, pk, message, signature) == signature = pk \o message

\* sign(message, key)
sign(message, key) ==
    IF ~SchemeAccepts(key.digest_function, key.payload)
    THEN Err(Error("Signing", "invalid secret key"))
    ELSE Ok(Signature(key.digest_function,
                      UrsaSign(key.digest_function, key.payload, message)))

\* verify that checks the signer and not the message (a mutant)
verify_signer_only(message, signature, key) ==
    /\ signature.digest_function = key.digest_function
    /\ Take(signature.payload, Len(key.payload)) = key.payload

\* verify(message, signature, key)
verify(message, signature, key) ==
    IF signature.digest_function # key.digest_function THEN FALSE
    ELSE UrsaVerify(key.digest_function, key.payload, message, signature.payload)

(***************************************************************************)
(* Merkle tree.  Module `merkle` (lib.rs:9, lib.rs:30) is not part of the  *)
(* visible source; build is modelled from the specification: every leaf is *)
(* hashed, adjacent pairs of a level are combined (the two child hashes    *)
(* concatenated, then hashed) into the next level until one root remains,  *)
(* a trailing node of an odd level is carried up unchanged, and the empty  *)
(* sequence yields a fixed sentinel root.  The hash is ideal: an injective *)
(* map of byte strings (its argument between two marks that are no bytes). *)
(***************************************************************************)
\* Hash::new(bytes)
Hash(bytes) == <<256>> \o bytes \o <<257>>

\* the root of the tree of no leaves
EmptyRoot == [i \in 1..32 |-> 0]

\* the level above `level`, a trailing node duplicated and hashed with itself
\* (a mutant)
RECURSIVE NextLevel_duplicate_last(_)
NextLevel_duplicate_last(level) ==
    IF Len(level) = 0 THEN <<>>
    ELSE IF Len(level) = 1 THEN <<Hash(level[1] \o level[1])>>
    ELSE <<Hash(level[1] \o level[2])>> \o NextLevel_duplicate_last(Drop(level, 2))

\* the level above `level`, the pairs combined by the byte-wise sum of the two
\* child hashes (a mutant)
RECURSIVE NextLevel_sum(_)
NextLevel_sum(level) ==
    IF Len(level) <= 1 THEN level
    ELSE <<Hash([i \in 1..Len(level[1]) |->
                    level[1][i] + (IF i <= Len(level[2]) THEN level[2][i] ELSE 0)])>>
         \o NextLevel_sum(Drop(level, 2))

\* the level above `level`: adjacent pairs combined, a trailing node carried up
RECURSIVE NextLevel(_)
NextLevel(level) ==
    IF Len(level) <= 1 THEN level
    ELSE <<Hash(level[1] \o level[2])>> \o NextLevel(Drop(level, 2))

\* the levels of the tree, from the leaf hashes up to the root
RECURSIVE Levels(_)
Levels(level) ==
    IF Len(level) <= 1 THEN <<level>> ELSE <<level>> \o Levels(NextLevel(level))

\* struct MerkleTree: the leaves, the levels of hashes, the root
MerkleTree(leaves, levels, root) ==
    [leaves |-> leaves, levels |-> levels, root |-> root, built |-> TRUE]

\* MerkleTree::build(leaves)
MerkleTree_build(leaves) ==
    LET levels == Levels([i \in 1..Len(leaves) |-> Hash(leaves[i])])
    IN  IF Len(leaves) = 0 THEN MerkleTree(leaves, <<>>, EmptyRoot)
        ELSE MerkleTree(leaves, levels, levels[Len(levels)][1])

\* MerkleTree::root()
MerkleTree_root(tree) == tree.root

(***************************************************************************)
(* The caller.  It owns at most one loose PrivateKey, one loose PublicKey,  *)
(* one KeyPair and one MerkleTree, and `ret` records its last call: the    *)
(* operation, the arguments and the outcome.  Arguments passed by value    *)
(* are moved into the call.  The caller builds a value from text or from   *)
(* the generator when it holds nothing (Fresh), works on what it holds,    *)
(* and may drop it to start again.  A call that panics ends the caller.    *)
(***************************************************************************)
VARIABLES private_key, public_key, key_pair, ret, merkle, threads, frames, builder,
          validator

vars == <<private_key, public_key, key_pair, ret, merkle, threads, frames, builder,
          validator>>

\* the keys the caller owns
keys == <<private_key, public_key, key_pair>>

\* the worker threads and the frames of their calls
workers == <<threads, frames>>

\* the state the caller's key operations never touch
elsewhere == <<merkle, workers, builder, validator>>

Call(op, args, out) == [op |-> op, args |-> args, out |-> out]

\* what the OS random generator may yield
Secrets == 1..NumSecrets

Seeds == {<<s>> : s \in 1..MaxSeed}

\* a 32-byte payload that is no Secp256k1 scalar
ZeroScalar == [i \in 1..32 |-> 0]

\* private payloads the caller may hold as text: every scheme's secrets, and zero
PrivatePayloads == {SchemeSecret(a, k) : a \in Algorithm, k \in Secrets} \cup {ZeroScalar}

\* texts that are not hex: odd length, a non-hex character
MalformedHex == {<<"A", "B", "C">>, <<"Z", "Z">>}

PrivateKeyTexts == {hex_encode_upper(p) : p \in PrivatePayloads} \cup MalformedHex

\* the public keys of the schemes' secrets
PublicKeys ==
    {PublicKey(a, SchemePublic(a, SchemeSecret(a, k))) : a \in Algorithm, k \in Secrets}

PublicKeyTexts == {PublicKey_to_string(k).val : k \in PublicKeys} \cup MalformedHex

\* multihash bytes of keys of unusual sizes: no payload, one byte, and the same one
\* byte under another algorithm
ShortMultihashes ==
    {<<237, 1, 0>>, <<237, 1, 1, 170>>, <<231, 1, 1, 170>>, <<234, 1, 2, 170, 187>>}

\* multihash bytes that name no key: an unknown function code (0x12, and the
\* two-byte 0xec01), a size byte above and below the bytes that follow, no size
\* byte, a function code that never ends, nothing
BadMultihashes ==
    {<<18, 1, 170>>, <<236, 1, 1, 170>>, <<237, 1, 2, 170>>, <<237, 1, 1, 170, 187>>,
     <<237, 1, 32>> \o Bytes(31, 1), <<237, 1, 32>> \o Bytes(33, 1),
     <<237, 1>>, <<237>>, <<>>}

\* a text with a space put after its first n characters
WithSpace(text, n) == Take(text, n) \o <<" ">> \o Drop(text, n)

\* texts offered to PublicKey::from_str: the displayed keys, the same hex in lower
\* and in upper case throughout, with spaces, keys of unusual sizes, and texts
\* that name no key
PublicKeyStrings ==
    PublicKeyTexts
        \cup {hex_encode(Multihash_to_bytes(k).val) : k \in PublicKeys}
        \cup {hex_encode_upper(Multihash_to_bytes(k).val) : k \in PublicKeys}
        \cup {WithSpace(PublicKey_to_string(k).val, n) : k \in PublicKeys, n \in {0, 6}}
        \cup {hex_encode_upper(b) : b \in ShortMultihashes}
        \cup {hex_encode(b) : b \in ShortMultihashes \cup BadMultihashes}

\* the keys of unusual sizes that ShortMultihashes name
ShortKeys ==
    {PublicKey("Ed25519", <<>>), PublicKey("Ed25519", <<170>>),
     PublicKey("Secp256k1", <<170>>), PublicKey("BlsNormal", <<170, 187>>)}

\* texts offered as algorithm names: the four names, another case, padding, nothing
AlgorithmTexts ==
    {Algorithm_to_string(a) : a \in Algorithm}
        \cup {<<"E", "D", "2", "5", "5", "1", "9">>, <<" ">> \o ED_25519,
              SECP_256_K1 \o <<" ">>, <<"b", "l", "s">>, <<>>}

\* PrivateKey records: every name with every text, and one unknown name
PrivateKeyRecords ==
    {[digest_function |-> Algorithm_to_string(a), payload |-> t] :
        a \in Algorithm, t \in PrivateKeyTexts}
        \cup {[digest_function |-> <<"b", "l", "s">>,
               payload |-> hex_encode_upper(ZeroScalar)]}

Running == ret.out.tag # "Abort"

Start == Call("start", <<>>, Ok(<<>>))

\* the caller holds nothing and has made no call since it started or dropped
Fresh == ret = Start

ValueOr(result, default) == IF result.tag = "Ok" THEN result.val ELSE default

\* no Merkle tree has been built
NoTree == [leaves |-> <<>>, levels |-> <<>>, root |-> <<>>, built |-> FALSE]

Threads == 1..NumThreads

\* a thread that is in no call, and a frame that no call uses
IdleThread == [pc |-> "idle", call |-> Start, overlapped |-> FALSE, result |-> Ok(<<>>)]

\* the locals of PublicKey::try_from_private before they are set
NoLocal ==
    [digest_function |-> Algorithm_default, key_gen_option |-> UrsaOption("FromSecretKey", <<>>)]

NoFrame == [args |-> <<>>, local |-> NoLocal, out |-> Ok(<<>>)]

\* the longest chain of builder calls
MaxCalls == 3

\* KeyGenConfiguration::default(), and no builder call made on it yet
NoCalls == [configuration |-> KeyGenConfiguration_default, calls |-> <<>>]

\* the longest string given to a string predicate
MaxText == 3

\* the longest validator body, in macro calls
MaxStatements == 3

\* no validator is running
NoValidator == [body |-> <<>>, pc |-> 0, executed |-> <<>>, verdict |-> [tag |-> "None"]]

Init ==
    /\ private_key = NoKey
    /\ public_key = NoKey
    /\ key_pair = NoKeyPair
    /\ ret = Start
    /\ merkle = NoTree
    /\ threads = [t \in Threads |-> IdleThread]
    /\ frames = [t \in Threads |-> NoFrame]
    /\ builder = NoCalls
    /\ validator = NoValidator

\* PrivateKey::from_hex_unchecked(digest_function, payload)
FromHexUnchecked ==
    \E digest_function \in Algorithm, payload \in PrivateKeyTexts :
        LET out == from_hex_unchecked(digest_function, payload)
        IN  /\ Fresh
            /\ ret' = Call("PrivateKey::from_hex_unchecked",
                           [digest_function |-> digest_function, payload |-> payload], out)
            /\ private_key' = ValueOr(out, NoKey)
            /\ public_key' = NoKey
            /\ UNCHANGED elsewhere
            /\ key_pair' = NoKeyPair

\* PrivateKey::from_hex(digest_function, payload)
FromHex ==
    \E digest_function \in Algorithm, payload \in PrivateKeyTexts, fault \in UrsaKeyFaults :
        LET out == from_hex(digest_function, payload, fault)
        IN  /\ Fresh
            /\ ret' = Call("PrivateKey::from_hex",
                           [digest_function |-> digest_function, payload |-> payload], out)
            /\ private_key' = ValueOr(out, NoKey)
            /\ public_key' = NoKey
            /\ UNCHANGED elsewhere
            /\ key_pair' = NoKeyPair

\* str::parse::<PublicKey>(key)
PublicKeyFromStr ==
    \E key \in PublicKeyStrings :
        /\ Fresh
        /\ ret' = Call("PublicKey::from_str", key, PublicKey_from_str(key))
        /\ private_key' = NoKey
        /\ public_key' = ValueOr(PublicKey_from_str(key), NoKey)
        /\ UNCHANGED elsewhere
        /\ key_pair' = NoKeyPair

\* KeyPair::new(public_key, private_key) on a parsed public key and the loose
\* private key (tests::key_pair_match, lib.rs:652-668)
KeyPairNew ==
    \E public \in PublicKeys, fault \in UrsaKeyFaults :
        LET out == KeyPair_new(public, private_key, fault)
        IN  /\ Running
            /\ private_key # NoKey
            /\ ret' = Call("KeyPair::new",
                           [public_key |-> public, private_key |-> private_key], out)
            /\ key_pair' = ValueOr(out, NoKeyPair)
            /\ private_key' = NoKey
            /\ public_key' = NoKey
            /\ UNCHANGED elsewhere

\* KeyPair::generate()
Generate ==
    \E entropy \in Secrets, fault \in UrsaKeyFaults :
        LET out == generate(entropy, fault)
        IN  /\ Fresh
            /\ ret' = Call("KeyPair::generate", <<>>, out)
            /\ key_pair' = ValueOr(out, NoKeyPair)
            /\ private_key' = NoKey
            /\ public_key' = NoKey
            /\ UNCHANGED elsewhere

\* the configurations the builder yields: any algorithm, and no option, a seed, or
\* the loose private key
Configurations ==
    {with_algorithm(c, a) :
        a \in Algorithm,
        c \in {KeyGenConfiguration_default}
              \cup {use_seed(KeyGenConfiguration_default, seed) : seed \in Seeds}
              \cup (IF private_key = NoKey THEN {}
                    ELSE {use_private_key(KeyGenConfiguration_default, private_key)})}

\* KeyPair::generate_with_configuration(configuration), by a caller that holds
\* nothing or holds a loose private key
GenerateWithConfiguration ==
    \E configuration \in Configurations, entropy \in Secrets, fault \in UrsaKeyFaults :
        LET out == generate_with_configuration(configuration, entropy, fault)
        IN  /\ Running
            /\ Fresh \/ private_key # NoKey
            /\ ret' = Call("KeyPair::generate_with_configuration", configuration, out)
            /\ key_pair' = ValueOr(out, NoKeyPair)
            /\ private_key' = NoKey
            /\ public_key' = NoKey
            /\ UNCHANGED elsewhere

\* impl From<KeyPair> for (PublicKey, PrivateKey), lib.rs:289-293; the caller keeps
\* the private key
IntoKeys ==
    /\ Running
    /\ key_pair # NoKeyPair
    /\ ret' = Call("KeyPair::into", key_pair,
                   Ok(<<key_pair.public_key, key_pair.private_key>>))
    /\ private_key' = key_pair.private_key
    /\ public_key' = key_pair.public_key
    /\ UNCHANGED elsewhere
    /\ key_pair' = NoKeyPair

\* serde: deserialize a PrivateKey record
DeserializePrivateKey ==
    \E record \in PrivateKeyRecords, fault \in UrsaKeyFaults :
        LET out == PrivateKey_deserialize(record, fault)
        IN  /\ Fresh
            /\ ret' = Call("PrivateKey::deserialize", record, out)
            /\ private_key' = ValueOr(out, NoKey)
            /\ public_key' = NoKey
            /\ UNCHANGED elsewhere
            /\ key_pair' = NoKeyPair

\* serde: deserialize a KeyPair record whose private half is the record of the
\* loose private key and whose public half is any public key text
DeserializeKeyPair ==
    \E text \in PublicKeyTexts, fault \in UrsaKeyFaults :
        LET record == [public_key |-> text, private_key |-> PrivateKey_serialize(private_key)]
            out == KeyPair_deserialize(record, fault)
        IN  /\ Running
            /\ private_key # NoKey
            /\ ret' = Call("KeyPair::deserialize", record, out)
            /\ key_pair' = ValueOr(out, NoKeyPair)
            /\ private_key' = NoKey
            /\ public_key' = NoKey
            /\ UNCHANGED elsewhere

\* serde: serialize the owned key pair and its two keys, and deserialize the records
\* (tests::key_pair_serialize_deserialize_consistent, lib.rs:610-629)
SerdeRoundTrip ==
    \E fault \in UrsaKeyFaults :
        /\ Running
        /\ key_pair # NoKeyPair
        /\ ret' = Call("serde::round_trip", key_pair,
                       Ok([key_pair |-> KeyPair_deserialize(KeyPair_serialize(key_pair), fault),
                           public_key |->
                               PublicKey_deserialize(PublicKey_serialize(key_pair.public_key)),
                           private_key |->
                               PrivateKey_deserialize(
                                   PrivateKey_serialize(key_pair.private_key), fault)]))
        /\ UNCHANGED <<keys, elsewhere>>

\* SCALE: encode and decode the public key of the owned pair and its Algorithm
\* (tests::encode_decode_algorithm_consistent, encode_decode_public_key_consistent)
ScaleRoundTrip ==
    /\ Running
    /\ key_pair # NoKeyPair
    /\ ret' = Call("scale::round_trip", key_pair.public_key,
                   Ok([algorithm |->
                           Algorithm_decode(Algorithm_encode(key_pair.public_key.digest_function)),
                       public_key |->
                           PublicKey_decode(PublicKey_encode(key_pair.public_key))]))
    /\ UNCHANGED <<keys, elsewhere>>

\* str::parse::<Algorithm>(text)
AlgorithmFromStr ==
    \E text \in AlgorithmTexts :
        /\ Fresh
        /\ ret' = Call("Algorithm::from_str", text, Algorithm_from_str(text))
        /\ private_key' = NoKey
        /\ public_key' = NoKey
        /\ UNCHANGED elsewhere
        /\ key_pair' = NoKeyPair

\* format!("{}", public_key) of the public key of the owned pair
DisplayPublicKey ==
    /\ Running
    /\ key_pair # NoKeyPair
    /\ ret' = Call("PublicKey::fmt", key_pair.public_key,
                   PublicKey_to_string(key_pair.public_key))
    /\ UNCHANGED <<keys, elsewhere>>

\* key.parse::<PublicKey>() and, when it yields a key, format!("{}", key)
\* (the fixtures of tests::display_public_key, parsed and displayed again)
ParseThenDisplay ==
    \E key \in PublicKeyStrings :
        LET parsed == PublicKey_from_str(key)
        IN  /\ Fresh
            /\ ret' = Call("PublicKey::from_str/to_string", key,
                           IF parsed.tag = "Ok" THEN PublicKey_to_string(parsed.val)
                           ELSE parsed)
            /\ private_key' = NoKey
            /\ public_key' = ValueOr(parsed, NoKey)
            /\ key_pair' = NoKeyPair
            /\ UNCHANGED elsewhere

\* format!("{}", public_key) of the loose public key just obtained and of another
\* key, and the text of the first parsed again
DisplayThenParse ==
    /\ Running
    /\ public_key # NoKey
    /\ ret.op \in {"PublicKey::from_str", "KeyPair::into"}
    /\ \E other \in PublicKeys \cup ShortKeys :
        LET text == PublicKey_to_string(public_key)
        IN  /\ ret' = Call("PublicKey::to_string/from_str",
                           [public_key |-> public_key, other |-> other],
                           IF text.tag # "Ok" THEN text
                           ELSE Ok([text |-> text.val,
                                    parsed |-> PublicKey_from_str(text.val),
                                    other_text |-> PublicKey_to_string(other)]))
            /\ UNCHANGED <<keys, elsewhere>>

\* the messages signed
Messages == UNION {[1..n -> {1, 2}] : n \in 0..MaxMessage}

\* two messages of one length that differ in exactly one byte
DiffersInOneByte(a, b) ==
    /\ Len(a) = Len(b)
    /\ Cardinality({i \in 1..Len(a) : a[i] # b[i]}) = 1

\* sign(message, private key) with the private key of a key pair just generated,
\* and verify of the signature: against the message and the pair's public key,
\* against another message, and against another public key
SignVerify ==
    /\ Running
    /\ key_pair # NoKeyPair
    /\ ret.op \in {"KeyPair::generate", "KeyPair::generate_with_configuration"}
    /\ \E message \in Messages, altered \in Messages, other \in PublicKeys :
        LET signature == sign(message, key_pair.private_key)
        IN  /\ altered = message \/ DiffersInOneByte(message, altered)
            /\ ret' = Call("sign/verify",
                           [key_pair |-> key_pair, message |-> message,
                            altered |-> altered, other |-> other],
                           IF signature.tag # "Ok" THEN signature
                           ELSE Ok([signature |-> signature.val,
                                    verified |->
                                        verify(message, signature.val, key_pair.public_key),
                                    verified_altered |->
                                        verify(altered, signature.val, key_pair.public_key),
                                    verified_other |->
                                        verify(message, signature.val, other)]))
            /\ UNCHANGED <<keys, elsewhere>>

\* the variants of ursa::CryptoError, each with a detail string
UrsaErrors ==
    {[variant |-> v, detail |-> d] :
        v \in {"NoSuchAlgorithm", "ParseError", "SigningError", "KeyGenError",
               "DigestGenError", "GeneralError"},
        d \in {"invalid secret key", ""}}

\* Error::from(source) of an ursa::CryptoError (the `?` of lib.rs:254 and 335)
ErrorFromUrsa ==
    /\ Fresh
    /\ \E source \in UrsaErrors :
        ret' = Call("Error::from(ursa::CryptoError)", source, Ok(Error_from_ursa(source)))
    /\ UNCHANGED <<keys, elsewhere>>

\* Error::from(NoSuchAlgorithm) (the `?` of lib.rs:248)
ErrorFromNoSuchAlgorithm ==
    /\ Fresh
    /\ ret' = Call("Error::from(NoSuchAlgorithm)", <<>>, Ok(Error_from_NoSuchAlgorithm))
    /\ UNCHANGED <<keys, elsewhere>>

\* the ways spaces are put into a text: in front, inside, at the end, and twice
Spaced(text) ==
    {WithSpace(text, n) : n \in {0, 1, Len(text) \div 2, Len(text)}}
        \cup {WithSpace(WithSpace(text, 1), 1), WithSpace(WithSpace(text, 0), Len(text) + 1)}

\* texts offered to hex_decode: hex in either case, with spaces, with a tab, of odd
\* length, with a character that is no hex digit, nothing, spaces alone
HexTexts ==
    LET plain == {<<"0", "a">>, <<"F", "f", "1", "0">>, <<"A", "B", "C">>, <<"Z", "Z">>, <<>>}
    IN  plain \cup UNION {Spaced(t) : t \in plain}
              \cup {<<"0", "\t", "a">>, <<"0", "a", "\n">>, <<"0", "x", "0", "a">>}

\* hex_decode(payload), and hex_decode of the payload without its spaces
HexDecode ==
    /\ Fresh
    /\ \E payload \in HexTexts :
        ret' = Call("hex_decode", payload,
                    Ok([decoded |-> hex_decode(payload),
                        unspaced |-> hex_decode(SelectSeq(payload, IsNotSpace))]))
    /\ UNCHANGED <<keys, elsewhere>>

\* PrivateKey::from_hex of a text and of the text with spaces put in
FromHexSpaced ==
    /\ Fresh
    /\ \E digest_function \in Algorithm, payload \in PrivateKeyTexts, fault \in UrsaKeyFaults :
        \E spaced \in Spaced(payload) :
            ret' = Call("PrivateKey::from_hex/spaced",
                        [digest_function |-> digest_function, payload |-> payload,
                         spaced |-> spaced],
                        Ok([plain |-> from_hex(digest_function, payload, fault),
                            spaced |-> from_hex(digest_function, spaced, fault)]))
    /\ UNCHANGED <<keys, elsewhere>>

\* PublicKey::from_str of a text and of the text with spaces put in
FromStrSpaced ==
    /\ Fresh
    /\ \E key \in PublicKeyStrings :
        \E spaced \in Spaced(key) :
            ret' = Call("PublicKey::from_str/spaced", [key |-> key, spaced |-> spaced],
                        Ok([plain |-> PublicKey_from_str(key),
                            spaced |-> PublicKey_from_str(spaced)]))
    /\ UNCHANGED <<keys, elsewhere>>

\* PrivateKey::from_hex and PrivateKey::from_hex_unchecked of one text, among the
\* texts hex of no scheme's key length: no byte, one byte, three bytes
FromHexBoth ==
    /\ Fresh
    /\ \E digest_function \in Algorithm, fault \in UrsaKeyFaults,
          payload \in PrivateKeyTexts
                          \cup {<<>>, <<"0", "a">>, <<"0", "A", "F", "F", "1", "0">>} :
        ret' = Call("PrivateKey::from_hex/from_hex_unchecked",
                    [digest_function |-> digest_function, payload |-> payload],
                    Ok([checked |-> from_hex(digest_function, payload, fault),
                        unchecked |-> from_hex_unchecked(digest_function, payload)]))
    /\ UNCHANGED <<keys, elsewhere>>

\* private_key.to_string(), then PrivateKey::from_hex_unchecked of the text
PrivateKeyDisplayThenParse ==
    /\ Running
    /\ private_key # NoKey
    /\ ret.op \in {"PrivateKey::from_hex", "PrivateKey::from_hex_unchecked",
                   "KeyPair::generate_with_configuration"}
    /\ LET text == PrivateKey_to_string(private_key)
       IN  ret' = Call("PrivateKey::to_string/from_hex_unchecked",
                       [private_key |-> private_key, text |-> text],
                       from_hex_unchecked(private_key.digest_function, text))
    /\ UNCHANGED <<keys, elsewhere>>

\* derive(PartialOrd, Ord) for Algorithm, lib.rs:73-89: by place in the declaration
Algorithm_cmp(a, b) ==
    LET place(x) == CHOOSE i \in 1..Len(AlgorithmVariants) : AlgorithmVariants[i] = x
    IN  IF place(a) < place(b) THEN "Less"
        ELSE IF place(a) > place(b) THEN "Greater" ELSE "Equal"

\* Ord for Vec<u8>: the first unequal pair of bytes decides, then the lengths
RECURSIVE Vec_cmp(_, _)
Vec_cmp(a, b) ==
    IF a = <<>> \/ b = <<>>
    THEN IF Len(a) < Len(b) THEN "Less" ELSE IF Len(a) > Len(b) THEN "Greater" ELSE "Equal"
    ELSE IF Head(a) < Head(b) THEN "Less"
    ELSE IF Head(a) > Head(b) THEN "Greater"
    ELSE Vec_cmp(Tail(a), Tail(b))

\* PublicKey ordering that looks at the payload before the algorithm (a mutant)
PublicKey_cmp_payload_first(a, b) ==
    LET first == Vec_cmp(a.payload, b.payload)
    IN  IF first # "Equal" THEN first ELSE Algorithm_cmp(a.digest_function, b.digest_function)

\* derive(PartialOrd, Ord) for PublicKey, lib.rs:297-304: field by field, in the
\* order of declaration
PublicKey_cmp(a, b) ==
    LET first == Algorithm_cmp(a.digest_function, b.digest_function)
    IN  IF first # "Equal" THEN first ELSE Vec_cmp(a.payload, b.payload)

\* derive(PartialEq, Eq) for PublicKey, lib.rs:297-304: every field equal
PublicKey_eq(a, b) ==
    Algorithm_cmp(a.digest_function, b.digest_function) = "Equal"
        /\ Vec_cmp(a.payload, b.payload) = "Equal"

\* PublicKeyPredicateBox::applies, mod.rs:155-161
PublicKeyPredicateBox_applies(expected, input) == PublicKey_eq(expected, input)

\* keys to compare: every algorithm with payloads one of which is a prefix of
\* another, and with high bytes
OrderedKeys ==
    {PublicKey(a, p) : a \in Algorithm, p \in {<<>>, <<1>>, <<1, 0>>, <<200>>}}

\* a.cmp(&b), b.cmp(&c), a.cmp(&c), a == b and PublicKeyPredicateBox::Equals(a) on b
CompareKeys ==
    /\ Fresh
    /\ \E a \in OrderedKeys, b \in OrderedKeys, c \in OrderedKeys :
        ret' = Call("PublicKey::cmp", [a |-> a, b |-> b, c |-> c],
                    Ok([ab |-> PublicKey_cmp(a, b), ba |-> PublicKey_cmp(b, a),
                        bc |-> PublicKey_cmp(b, c), ac |-> PublicKey_cmp(a, c),
                        eq |-> PublicKey_eq(a, b),
                        applies |-> PublicKeyPredicateBox_applies(a, b)]))
    /\ UNCHANGED <<keys, elsewhere>>

\* str::starts_with: the input's first bytes are the content
str_starts_with(input, content) ==
    Len(content) <= Len(input) /\ SubSeq(input, 1, Len(content)) = content

\* str::ends_with: the input's last bytes are the content
str_ends_with(input, content) ==
    Len(content) <= Len(input)
        /\ SubSeq(input, Len(input) - Len(content) + 1, Len(input)) = content

\* str::contains: the content is found at some offset of the input
str_contains(input, content) ==
    \E offset \in 0..(Len(input) - Len(content)) :
        SubSeq(input, offset + 1, offset + Len(content)) = content

\* struct-like value of enum StringPredicateBox, mod.rs:104-113
StringPredicateBox(variant, content) == [variant |-> variant, content |-> content]

\* StringPredicateBox::applies with EndsWith forwarded to starts_with (a mutant)
StringPredicateBox_applies_ends_as_starts(self, input) ==
    CASE self.variant = "Contains" -> str_contains(input, self.content)
      [] self.variant = "StartsWith" -> str_starts_with(input, self.content)
      [] self.variant = "EndsWith" -> str_starts_with(input, self.content)
      [] self.variant = "Equals" -> input = self.content

\* impl PredicateTrait<T> for StringPredicateBox, mod.rs:117-130
StringPredicateBox_applies(self, input) ==
    CASE self.variant = "Contains" -> str_contains(input, self.content)
      [] self.variant = "StartsWith" -> str_starts_with(input, self.content)
      [] self.variant = "EndsWith" -> str_ends_with(input, self.content)
      [] self.variant = "Equals" -> input = self.content

\* the strings of at most MaxText characters over two characters
Texts == UNION {[1..n -> {"a", "b"}] : n \in 0..MaxText}

\* the four predicates of one content applied to one input
StringApplies ==
    /\ Fresh
    /\ \E content \in Texts, input \in Texts :
        ret' = Call("StringPredicateBox::applies", [content |-> content, input |-> input],
                    Ok([v \in {"Equals", "Contains", "StartsWith", "EndsWith"} |->
                           StringPredicateBox_applies(StringPredicateBox(v, content), input)]))
    /\ UNCHANGED <<keys, elsewhere>>

\* the caller drops what it holds and starts again
DropAll ==
    /\ Running
    /\ ~Fresh
    /\ ret' = Start
    /\ private_key' = NoKey
    /\ public_key' = NoKey
    /\ UNCHANGED elsewhere
    /\ key_pair' = NoKeyPair

\* the items committed: two byte strings
LeafItems == {<<1>>, <<2, 3>>}

\* the ordered leaf sequences offered to MerkleTree::build
LeafSequences == UNION {[1..n -> LeafItems] : n \in 0..MaxLeaves}

\* MerkleTree::build(leaves) by a caller that holds no tree
MerkleBuild ==
    /\ ~merkle.built
    /\ \E leaves \in LeafSequences :
        LET tree == MerkleTree_build(leaves)
        IN  /\ merkle' = tree
            /\ ret' = Call("MerkleTree::build", leaves, Ok(tree))
    /\ UNCHANGED <<keys, workers, builder, validator>>

\* MerkleTree::build(leaves) again, by the caller that has just built a tree: the
\* tree it holds is not changed, a new one is returned
MerkleRebuild ==
    /\ merkle.built
    /\ ret.op = "MerkleTree::build"
    /\ ret.args = merkle.leaves
    /\ \E leaves \in LeafSequences :
        ret' = Call("MerkleTree::build", leaves, Ok(MerkleTree_build(leaves)))
    /\ UNCHANGED <<keys, merkle, workers, builder, validator>>

\* the caller drops the tree it holds
MerkleDrop ==
    /\ merkle.built
    /\ merkle' = NoTree
    /\ ret' = Start
    /\ UNCHANGED <<keys, workers, builder, validator>>

NextMerkle ==
    \/ MerkleBuild
    \/ MerkleRebuild
    \/ MerkleDrop

\* the commitments alone: a caller that builds Merkle trees
SpecMerkle == Init /\ [][NextMerkle]_vars

(***************************************************************************)
(* Worker threads.  Each thread calls one operation on values it owns: the *)
(* arguments are moved into the frame of the call, the body works on the   *)
(* frame, and the result is moved back to the thread.  The steps of the    *)
(* threads interleave freely.  PublicKey::try_from_private                 *)
(* (lib.rs:324-341) is taken in the steps of its body: the locals          *)
(* digest_function and key_gen_option first, then the scheme's keypair    *)
(* call and the PublicKey built from it.                                   *)
(***************************************************************************)
\* the frame a call made by thread t runs in, were the locals of the operations
\* statics shared by all calls (a mutant)
FrameOf_static(t) == CHOOSE f \in Threads : \A u \in Threads : f <= u

\* the frame a call made by thread t runs in: its own
FrameOf(t) == t

\* the arguments of a call: a frame has room for the arguments of every operation,
\* and an operation reads its own
BaseArgs ==
    LET ed == PrivateKey("Ed25519", SchemeSecret("Ed25519", 1))
        edPublic == PublicKey("Ed25519", SchemePublic("Ed25519", ed.payload))
    IN  [private_key |-> ed, public_key |-> edPublic, digest_function |-> "Ed25519",
         payload |-> hex_encode_upper(ed.payload), key |-> PublicKey_to_string(edPublic).val,
         configuration |-> use_seed(KeyGenConfiguration_default, <<1>>),
         fault |-> "KeyGenError"]

\* the calls the threads make, each with arguments of its own
ThreadCalls ==
    LET secp == PrivateKey("Secp256k1", SchemeSecret("Secp256k1", 1))
        secpPublic == PublicKey("Secp256k1", SchemePublic("Secp256k1", secp.payload))
    IN  {Call("PublicKey::try_from_private", [BaseArgs EXCEPT !.private_key = k], <<>>) :
            k \in {BaseArgs.private_key, secp, PrivateKey("Ed25519", secp.payload)}}
        \cup {Call("KeyPair::new", [BaseArgs EXCEPT !.private_key = k], <<>>) :
                k \in {BaseArgs.private_key, secp}}
        \cup {Call("PrivateKey::from_hex", [BaseArgs EXCEPT !.digest_function = a], <<>>) :
                a \in {"Ed25519", "BlsNormal"}}
        \cup {Call("PublicKey::from_str",
                   [BaseArgs EXCEPT !.key = PublicKey_to_string(secpPublic).val], <<>>),
              Call("PublicKey::to_string", [BaseArgs EXCEPT !.public_key = secpPublic], <<>>),
              Call("KeyPair::generate_with_configuration",
                   [BaseArgs EXCEPT !.configuration =
                        with_algorithm(use_seed(KeyGenConfiguration_default, <<2>>),
                                       "Secp256k1")], <<>>)}

\* the operation of a call applied to arguments, run from its entry to its return
RunAlone(op, args) ==
    CASE op = "PublicKey::try_from_private" -> try_from_private(args.private_key, args.fault)
      [] op = "KeyPair::new" -> KeyPair_new(args.public_key, args.private_key, args.fault)
      [] op = "PrivateKey::from_hex" -> from_hex(args.digest_function, args.payload, args.fault)
      [] op = "PublicKey::from_str" -> PublicKey_from_str(args.key)
      [] op = "PublicKey::to_string" -> PublicKey_to_string(args.public_key)
      [] op = "KeyPair::generate_with_configuration" ->
            generate_with_configuration(args.configuration, 1, args.fault)

\* a thread calls an operation: the arguments are moved into the frame of the call
ThreadCall(t) ==
    /\ threads[t].pc = "idle"
    /\ \E call \in ThreadCalls :
        /\ threads' = [threads EXCEPT ![t] =
                [pc |-> "called", call |-> call,
                 overlapped |-> \E u \in Threads \ {t} : threads[u].pc \in {"called", "prepared"},
                 result |-> Ok(<<>>)]]
        /\ frames' = [frames EXCEPT ![FrameOf(t)] =
                [args |-> call.args, local |-> NoLocal, out |-> Ok(<<>>)]]
    /\ UNCHANGED <<keys, ret, merkle, builder, validator>>

\* PublicKey::try_from_private, lib.rs:325-328: the locals digest_function and
\* key_gen_option
ThreadPrepare(t) ==
    /\ threads[t].pc = "called"
    /\ threads[t].call.op = "PublicKey::try_from_private"
    /\ threads' = [threads EXCEPT ![t].pc = "prepared"]
    /\ frames' = [frames EXCEPT ![FrameOf(t)].local =
            [digest_function |-> frames[FrameOf(t)].args.private_key.digest_function,
             key_gen_option |->
                 UrsaOption("FromSecretKey", frames[FrameOf(t)].args.private_key.payload)]]
    /\ UNCHANGED <<keys, ret, merkle, builder, validator>>

\* the body of the call, on the frame: for PublicKey::try_from_private the keypair
\* call and the PublicKey built from it (lib.rs:330-340)
ThreadBody(t) ==
    LET frame == frames[FrameOf(t)]
        op == threads[t].call.op
        pair == UrsaKeypair(frame.local.digest_function, frame.local.key_gen_option, 0,
                            frame.args.fault)
    IN  /\ \/ threads[t].pc = "prepared"
           \/ threads[t].pc = "called" /\ op # "PublicKey::try_from_private"
        /\ threads' = [threads EXCEPT ![t].pc = "computed"]
        /\ frames' = [frames EXCEPT ![FrameOf(t)].out =
                IF op # "PublicKey::try_from_private" THEN RunAlone(op, frame.args)
                ELSE IF pair.tag = "Err" THEN Err(Error_from_ursa(pair.val))
                ELSE Ok(PublicKey(frame.args.private_key.digest_function, pair.val.public))]
        /\ UNCHANGED <<keys, ret, merkle, builder, validator>>

\* the call returns: the result is moved to the thread
ThreadReturn(t) ==
    /\ threads[t].pc = "computed"
    /\ threads' = [threads EXCEPT ![t].pc = "returned",
                                  ![t].result = frames[FrameOf(t)].out]
    /\ UNCHANGED <<keys, ret, merkle, frames, builder, validator>>

\* the threads are joined and their results dropped
ThreadsJoin ==
    /\ \A t \in Threads : threads[t].pc = "returned"
    /\ threads' = [t \in Threads |-> IdleThread]
    /\ frames' = [t \in Threads |-> NoFrame]
    /\ UNCHANGED <<keys, ret, merkle, builder, validator>>

NextThreads ==
    \/ \E t \in Threads : ThreadCall(t)
    \/ \E t \in Threads : ThreadPrepare(t)
    \/ \E t \in Threads : ThreadBody(t)
    \/ \E t \in Threads : ThreadReturn(t)
    \/ ThreadsJoin

\* the operations called from several threads at once
SpecThreads == Init /\ [][NextThreads]_vars

(***************************************************************************)
(* The builder: a caller chains use_seed, use_private_key and              *)
(* with_algorithm on KeyGenConfiguration::default(); each call takes the   *)
(* configuration by value and returns it.                                  *)
(***************************************************************************)
\* one builder call: its name, its argument, the configuration it took and the
\* one it returned
BuilderCall(op, seed, key, algorithm, self, out) ==
    [op |-> op, seed |-> seed, key |-> key, algorithm |-> algorithm,
     before |-> self, after |-> out]

Chained(call) ==
    builder' = [configuration |-> call.after, calls |-> Append(builder.calls, call)]

\* configuration.use_seed(seed)
BuilderUseSeed ==
    /\ Len(builder.calls) < MaxCalls
    /\ \E seed \in Seeds :
        Chained(BuilderCall("use_seed", seed, NoKey, "None", builder.configuration,
                            use_seed(builder.configuration, seed)))
    /\ UNCHANGED <<keys, ret, merkle, workers, validator>>

\* configuration.use_private_key(private_key)
BuilderUsePrivateKey ==
    /\ Len(builder.calls) < MaxCalls
    /\ \E key \in {PrivateKey(a, SchemeSecret(a, 1)) : a \in Algorithm} :
        Chained(BuilderCall("use_private_key", <<>>, key, "None", builder.configuration,
                            use_private_key(builder.configuration, key)))
    /\ UNCHANGED <<keys, ret, merkle, workers, validator>>

\* configuration.with_algorithm(algorithm)
BuilderWithAlgorithm ==
    /\ Len(builder.calls) < MaxCalls
    /\ \E algorithm \in Algorithm :
        Chained(BuilderCall("with_algorithm", <<>>, NoKey, algorithm, builder.configuration,
                            with_algorithm(builder.configuration, algorithm)))
    /\ UNCHANGED <<keys, ret, merkle, workers, validator>>

\* the caller starts again from KeyGenConfiguration::default()
BuilderDefault ==
    /\ builder # NoCalls
    /\ builder' = NoCalls
    /\ UNCHANGED <<keys, ret, merkle, workers, validator>>

NextBuilder ==
    \/ BuilderUseSeed
    \/ BuilderUsePrivateKey
    \/ BuilderWithAlgorithm
    \/ BuilderDefault

SpecBuilder == Init /\ [][NextBuilder]_vars

(***************************************************************************)
(* Validators: a body is a sequence of pass!, pass_if!, deny! and deny_if!  *)
(* calls followed by a trailing expression; the macros expand to `return`  *)
(* and `if`.                                                               *)
(***************************************************************************)
\* Verdict::Pass and Verdict::Deny(reason)
Verdict_Pass == [tag |-> "Pass"]

Verdict_Deny(reason) == [tag |-> "Deny", reason |-> reason]

\* format!: the pieces of the format string in order, "{}" replaced by the next
\* argument and "{mes}" by the variable mes in scope
RECURSIVE format(_, _, _)
format(fmt, args, mes) ==
    IF fmt = <<>> THEN ""
    ELSE IF Head(fmt) = "{}" THEN Head(args) \o format(Tail(fmt), Tail(args), mes)
    ELSE IF Head(fmt) = "{mes}" THEN mes \o format(Tail(fmt), args, mes)
    ELSE Head(fmt) \o format(Tail(fmt), args, mes)

\* the reason a deny! call is given: a literal, an expression that yields a String,
\* or a format string with arguments
Reason(form, fmt, args, mes, value) ==
    [form |-> form, fmt |-> fmt, args |-> args, mes |-> mes, value |-> value]

\* the reasons of tests::test_deny and tests::test_deny_if, validator.rs:224-240
Reasons ==
    {Reason("literal", <<"Some reason">>, <<>>, "", ""),
     Reason("expr", <<>>, <<>>, "", "Reason from expression"),
     Reason("format", <<"Reason: ", "{}">>, <<"Format message">>, "Format message", ""),
     Reason("literal", <<"Reason: ", "{mes}">>, <<>>, "Advanced format message", "")}

\* deny! without the return: the verdict is built and the body goes on (a mutant)
deny_no_return(reason) ==
    [returns |-> FALSE, verdict |-> Verdict_Deny(format(reason.fmt, reason.args, reason.mes))]

\* macro deny!, validator.rs:55-71: return Verdict::Deny of the formatted literal,
\* of the expression's String, or of format!(fmt, args)
deny(reason) ==
    [returns |-> TRUE,
     verdict |-> CASE reason.form = "literal"
                        -> Verdict_Deny(format(reason.fmt, <<>>, reason.mes))
                   [] reason.form = "expr" -> Verdict_Deny(reason.value)
                   [] reason.form = "format"
                        -> Verdict_Deny(format(reason.fmt, reason.args, reason.mes))]

\* falling out of an `if` whose condition is false
FallThrough == [returns |-> FALSE, verdict |-> [tag |-> "None"]]

\* macro deny_if!, validator.rs:83-99: if e { deny!(...) }
deny_if(e, reason) == IF e THEN deny(reason) ELSE FallThrough

\* macro pass!, validator.rs:19-23: return Verdict::Pass
pass == [returns |-> TRUE, verdict |-> Verdict_Pass]

\* macro pass_if!, validator.rs:34-40: if e { return Verdict::Pass }
pass_if(e) == IF e THEN pass ELSE FallThrough

\* one macro call of a body
Statement(macro, e, reason) == [macro |-> macro, e |-> e, reason |-> reason]

Statements ==
    {Statement("pass!", TRUE, Reason("none", <<>>, <<>>, "", ""))}
        \cup {Statement("pass_if!", e, Reason("none", <<>>, <<>>, "", "")) : e \in BOOLEAN}
        \cup {Statement("deny!", TRUE, r) : r \in Reasons}
        \cup {Statement("deny_if!", e, r) : e \in BOOLEAN, r \in Reasons}

Bodies == UNION {[1..n -> Statements] : n \in 1..MaxStatements}

\* one statement executed: the body returns with the verdict or goes on to the
\* next statement
Executed(step) ==
    validator' = [validator EXCEPT
                     !.executed = Append(@, validator.pc),
                     !.pc = IF step.returns THEN -1 ELSE @ + 1,
                     !.verdict = IF step.returns THEN step.verdict ELSE @]

\* a validator body is entered
ValidatorEnter ==
    /\ validator = NoValidator
    /\ \E body \in Bodies :
        validator' = [NoValidator EXCEPT !.body = body, !.pc = 1]
    /\ UNCHANGED <<keys, ret, merkle, workers, builder>>

ValidatorPass ==
    /\ validator.pc \in 1..Len(validator.body)
    /\ validator.body[validator.pc].macro = "pass!"
    /\ Executed(pass)
    /\ UNCHANGED <<keys, ret, merkle, workers, builder>>

ValidatorPassIf ==
    /\ validator.pc \in 1..Len(validator.body)
    /\ validator.body[validator.pc].macro = "pass_if!"
    /\ Executed(pass_if(validator.body[validator.pc].e))
    /\ UNCHANGED <<keys, ret, merkle, workers, builder>>

ValidatorDeny ==
    /\ validator.pc \in 1..Len(validator.body)
    /\ validator.body[validator.pc].macro = "deny!"
    /\ Executed(deny(validator.body[validator.pc].reason))
    /\ UNCHANGED <<keys, ret, merkle, workers, builder>>

ValidatorDenyIf ==
    /\ validator.pc \in 1..Len(validator.body)
    /\ validator.body[validator.pc].macro = "deny_if!"
    /\ Executed(deny_if(validator.body[validator.pc].e,
                        validator.body[validator.pc].reason))
    /\ UNCHANGED <<keys, ret, merkle, workers, builder>>

\* no macro call returned: the body's trailing expression is reached
\* (unreachable!() in tests::test_deny_if)
ValidatorTrailing ==
    /\ validator.pc = Len(validator.body) + 1
    /\ validator' = [validator EXCEPT !.pc = -1, !.verdict = [tag |-> "Trailing"]]
    /\ UNCHANGED <<keys, ret, merkle, workers, builder>>

\* the verdict is taken by the caller
ValidatorLeave ==
    /\ validator.pc = -1
    /\ validator' = NoValidator
    /\ UNCHANGED <<keys, ret, merkle, workers, builder>>

NextValidator ==
    \/ ValidatorEnter
    \/ ValidatorPass
    \/ ValidatorPassIf
    \/ ValidatorDeny
    \/ ValidatorDenyIf
    \/ ValidatorTrailing
    \/ ValidatorLeave

SpecValidator == Init /\ [][NextValidator]_vars

Next ==
    \/ FromHexUnchecked
    \/ FromHex
    \/ PublicKeyFromStr
    \/ KeyPairNew
    \/ Generate
    \/ GenerateWithConfiguration
    \/ IntoKeys
    \/ DeserializePrivateKey
    \/ DeserializeKeyPair
    \/ SerdeRoundTrip
    \/ ScaleRoundTrip
    \/ AlgorithmFromStr
    \/ DisplayPublicKey
    \/ ParseThenDisplay
    \/ DisplayThenParse
    \/ SignVerify
    \/ ErrorFromUrsa
    \/ ErrorFromNoSuchAlgorithm
    \/ HexDecode
    \/ FromHexSpaced
    \/ FromStrSpaced
    \/ FromHexBoth
    \/ PrivateKeyDisplayThenParse
    \/ CompareKeys
    \/ StringApplies
    \/ DropAll

Spec == Init /\ [][Next]_vars

(***************************************************************************)
(* Properties.                                                             *)
(***************************************************************************)
\* the public key the scheme derives from a private key, or the refusal
Derived(key) == try_from_private(key, "KeyGenError")

\* a key pair whose halves carry one algorithm and whose private key derives the
\* public key
Matching(public, private) ==
    /\ private.digest_function = public.digest_function
    /\ Derived(private) = Ok(public)

\* C1: KeyPair::new(pub, priv) returns Ok if and only if priv and pub carry the same
\* algorithm and the public key derived from priv equals pub; every other pair is
\* rejected with an error.
C1_NewOkIffMatching ==
    ret.op = "KeyPair::new" =>
        LET matching == Matching(ret.args.public_key, ret.args.private_key)
        IN  /\ ret.out.tag = "Ok" <=> matching
            /\ ~matching => ret.out.tag = "Err"

\* C2: every KeyPair obtained through generate, generate_with_configuration (also
\* with FromPrivateKey of a key tagged with another algorithm), KeyPair::new or
\* deserialization has halves of one algorithm, the private one deriving the public.
C2_KeyPairMatches ==
    /\ key_pair # NoKeyPair => Matching(key_pair.public_key, key_pair.private_key)
    /\ (/\ ret.op \in {"KeyPair::generate", "KeyPair::generate_with_configuration",
                       "KeyPair::new", "KeyPair::deserialize"}
        /\ ret.out.tag = "Ok")
       => /\ key_pair = ret.out.val
          /\ Matching(ret.out.val.public_key, ret.out.val.private_key)

\* C2 witness: a pair generated from a private key tagged with another algorithm
\* than the configuration's
C2_Witness ==
    /\ ret.op = "KeyPair::generate_with_configuration"
    /\ ret.args.key_gen_option.kind = "FromPrivateKey"
    /\ ret.args.key_gen_option.key.digest_function # ret.args.algorithm
    /\ ret.out.tag = "Ok"
    /\ key_pair = ret.out.val

\* C3: KeyPair::new returns Ok or a typed Err for every input and never aborts, also
\* for a private key built by from_hex_unchecked from a payload that is no secret of
\* its algorithm.
C3_NewNeverAborts ==
    ret.op = "KeyPair::new" => ret.out.tag \in {"Ok", "Err"}

\* C4: generate_with_configuration with FromPrivateKey and a BLS configuration
\* algorithm always fails and yields no key pair, whatever the tag of the supplied
\* key.  (The claim also names the error's class, KeyGen; the failure alone is stated
\* here, which the claim implies.)
C4_BlsFromPrivateKeyFails ==
    (/\ ret.op = "KeyPair::generate_with_configuration"
     /\ ret.args.key_gen_option.kind = "FromPrivateKey"
     /\ ret.args.algorithm \in {"BlsNormal", "BlsSmall"})
    => /\ ret.out.tag = "Err"
       /\ key_pair = NoKeyPair

\* C5: PrivateKey::from_hex(algorithm, hex) returns Ok exactly when hex decodes and the
\* scheme derives a public key from the payload; the key returned has the algorithm
\* given and the decoded payload; any other input is an Err of class KeyGen or Parse.
C5_FromHexValidates ==
    ret.op = "PrivateKey::from_hex" =>
        LET decoded == hex_decode(ret.args.payload)
            accepted == /\ decoded.tag = "Ok"
                        /\ SchemeAccepts(ret.args.digest_function, decoded.val)
        IN  /\ ret.out.tag = "Ok" <=> accepted
            /\ accepted => /\ ret.out.val.digest_function = ret.args.digest_function
                           /\ ret.out.val.payload = decoded.val
                           /\ hex_encode_upper(ret.out.val.payload) = ret.args.payload
                           /\ private_key = ret.out.val
            /\ ~accepted => /\ ret.out.tag = "Err"
                            /\ ret.out.val.class \in {"KeyGen", "Parse"}
                            /\ private_key = NoKey

\* C5 witness: a BLS secret labelled Ed25519 is rejected
C5_Witness ==
    /\ ret.op = "PrivateKey::from_hex"
    /\ ret.args.digest_function = "Ed25519"
    /\ ret.args.payload = hex_encode_upper(SchemeSecret("BlsNormal", 1))
    /\ ret.out.tag = "Err"

\* C6: deserializing a PrivateKey record succeeds only if from_hex accepts its
\* (digest_function, payload), deserializing a KeyPair record only if KeyPair::new
\* accepts its halves; otherwise it fails with an error; no invalid value comes out.
C6_DeserializeValidates ==
    /\ ret.op = "PrivateKey::deserialize" =>
        LET digest_function == Algorithm_from_str(ret.args.digest_function)
        IN  /\ ret.out.tag \in {"Ok", "Err"}
            /\ ret.out.tag = "Ok" =>
                /\ digest_function.tag = "Ok"
                /\ from_hex(digest_function.val, ret.args.payload, "KeyGenError") = ret.out
                /\ Derived(ret.out.val).tag = "Ok"
    /\ ret.op = "KeyPair::deserialize" =>
        /\ ret.out.tag \in {"Ok", "Err"}
        /\ ret.out.tag = "Ok" =>
            /\ PublicKey_from_str(ret.args.public_key) = Ok(ret.out.val.public_key)
            /\ KeyPair_new(ret.out.val.public_key, ret.out.val.private_key, "KeyGenError")
                   = ret.out
            /\ Matching(ret.out.val.public_key, ret.out.val.private_key)

\* C6 witness: a KeyPair record whose halves are well-formed text but are refused as
\* a pair (an invalid secret, or halves that do not match)
C6_Witness ==
    /\ ret.op = "KeyPair::deserialize"
    /\ PublicKey_from_str(ret.args.public_key).tag = "Ok"
    /\ hex_decode(ret.args.private_key.payload).tag = "Ok"
    /\ ret.out.tag = "Err"

\* C7: for a key pair of any of the four algorithms, deserializing its record yields
\* the pair, and likewise for its public key and its private key alone.
C7_SerdeRoundTrip ==
    ret.op = "serde::round_trip" =>
        /\ ret.out.val.key_pair = Ok(ret.args)
        /\ ret.out.val.public_key = Ok(ret.args.public_key)
        /\ ret.out.val.private_key = Ok(ret.args.private_key)

\* C7 witness: the round trip of a generated BlsSmall pair
C7_Witness ==
    /\ ret.op = "serde::round_trip"
    /\ ret.args.public_key.digest_function = "BlsSmall"
    /\ Len(ret.args.public_key.payload) = 193
    /\ ret.out.val.key_pair.tag = "Ok"

\* C8: SCALE decode of the SCALE encoding returns the original Algorithm and the
\* original PublicKey, with no input left over.
C8_ScaleRoundTrip ==
    ret.op = "scale::round_trip" =>
        /\ ret.out.val.algorithm = Ok(Decoded(ret.args.digest_function, <<>>))
        /\ ret.out.val.public_key = Ok(Decoded(ret.args, <<>>))

\* C8 witness: the round trip of a 97-byte BlsNormal key, whose length takes the
\* two-byte compact form
C8_Witness ==
    /\ ret.op = "scale::round_trip"
    /\ ret.args.digest_function = "BlsNormal"
    /\ Len(ret.args.payload) = 97
    /\ ret.out.val.public_key.tag = "Ok"

\* the four names as the interface fixes them
AlgorithmNames ==
    [Ed25519 |-> <<"e", "d", "2", "5", "5", "1", "9">>,
     Secp256k1 |-> <<"s", "e", "c", "p", "2", "5", "6", "k", "1">>,
     BlsNormal |-> <<"b", "l", "s", "_", "n", "o", "r", "m", "a", "l">>,
     BlsSmall |-> <<"b", "l", "s", "_", "s", "m", "a", "l", "l">>]

\* C9: the names are a bijection with the variants: a name parses to its variant,
\* the displayed name of a variant parses back to it, any other text (another case,
\* padded) is NoSuchAlgorithm, and the default is Ed25519.
C9_AlgorithmNames ==
    /\ Algorithm_default = "Ed25519"
    /\ DOMAIN AlgorithmNames = Algorithm
    /\ \A a \in Algorithm :
        /\ Algorithm_to_string(a) = AlgorithmNames[a]
        /\ Algorithm_from_str(Algorithm_to_string(a)) = Ok(a)
    /\ ret.op = "Algorithm::from_str" =>
        /\ \A a \in Algorithm : ret.args = AlgorithmNames[a] => ret.out = Ok(a)
        /\ (\A a \in Algorithm : ret.args # AlgorithmNames[a])
               => ret.out = Err("NoSuchAlgorithm")

\* C9 witness: the name in another case is refused
C9_Witness ==
    /\ ret.op = "Algorithm::from_str"
    /\ ret.args = <<"E", "D", "2", "5", "5", "1", "9">>
    /\ ret.out.tag = "Err"

\* function code and digest size of each algorithm's keys, as hex text
MultihashPrefix ==
    [Ed25519 |-> <<"e", "d", "0", "1", "2", "0">>,
     Secp256k1 |-> <<"e", "7", "0", "1", "2", "1">>,
     BlsNormal |-> <<"e", "a", "0", "1", "6", "1">>,
     BlsSmall |-> <<"e", "b", "0", "1", "c", "1">>]

\* payload sizes of the supported keys
KeySize == [Ed25519 |-> 32, Secp256k1 |-> 33, BlsNormal |-> 97, BlsSmall |-> 193]

\* C10: a PublicKey of a supported size displays as the lower-case hex of its
\* two-byte function code, the lower-case hex of one byte holding payload.len(), and
\* the upper-case hex of the payload, with nothing between.
C10_DisplayLayout ==
    (/\ ret.op = "PublicKey::fmt"
     /\ Len(ret.args.payload) = KeySize[ret.args.digest_function])
    => /\ ret.out.tag = "Ok"
       /\ Len(ret.out.val) = 6 + 2 * Len(ret.args.payload)
       /\ SubSeq(ret.out.val, 1, 6) = MultihashPrefix[ret.args.digest_function]
       /\ SubSeq(ret.out.val, 5, 6) = hex_encode(<<Len(ret.args.payload)>>)
       /\ \A i \in 1..Len(ret.args.payload) :
            /\ ret.out.val[5 + 2 * i] = HexUpperDigits[(ret.args.payload[i] \div 16) + 1]
            /\ ret.out.val[6 + 2 * i] = HexUpperDigits[(ret.args.payload[i] % 16) + 1]

\* C10 witness: the display of a 193-byte BlsSmall key
C10_Witness ==
    /\ ret.op = "PublicKey::fmt"
    /\ ret.args.digest_function = "BlsSmall"
    /\ Len(ret.args.payload) = 193
    /\ ret.out.tag = "Ok"

\* the lower-case and the upper-case form of a hex digit (other characters are kept)
LowerOf(c) == IF IsHexDigit(c) THEN HexLowerDigits[HexVal(c) + 1] ELSE c

UpperOf(c) == IF IsHexDigit(c) THEN HexUpperDigits[HexVal(c) + 1] ELSE c

\* the case normalisation of a public key text: the six characters of the function
\* code and the size in lower case, the payload in upper case
CaseNormalised(text) ==
    [i \in 1..Len(text) |-> IF i <= 6 THEN LowerOf(text[i]) ELSE UpperOf(text[i])]

FunctionCodes == {<<237, 1>>, <<231, 1>>, <<234, 1>>, <<235, 1>>}

\* a text that is no multihash of a key: not hex once its spaces are dropped, or
\* bytes that do not start with a recognised function code, lack the size byte, or
\* whose size byte differs from the number of bytes after it
MalformedKeyText(text) ==
    LET hex == SelectSeq(text, IsNotSpace)
        bytes == [i \in 1..(Len(hex) \div 2) |-> 16 * HexVal(hex[2 * i - 1]) + HexVal(hex[2 * i])]
    IN  \/ Len(hex) % 2 = 1
        \/ \E i \in 1..Len(hex) : ~IsHexDigit(hex[i])
        \/ Len(bytes) < 3
        \/ SubSeq(bytes, 1, 2) \notin FunctionCodes
        \/ bytes[3] # Len(bytes) - 3

\* C13: PublicKey::from_str fails with a Parse-class error and yields no key when
\* the text is malformed hex, the function code is not recognised, the declared
\* size differs from the bytes that follow, or bytes are missing or trailing.
C13_FromStrRejects ==
    (ret.op = "PublicKey::from_str" /\ MalformedKeyText(ret.args))
    => /\ ret.out.tag = "Err"
       /\ ret.out.val.class = "Parse"
       /\ public_key = NoKey

\* C13 witness: well-formed hex whose size byte is below the bytes that follow
\* (trailing bytes), refused
C13_Witness ==
    /\ ret.op = "PublicKey::from_str"
    /\ ret.args = hex_encode(<<237, 1, 1, 170, 187>>)
    /\ ret.out.tag = "Err"

\* C14: for every message and every generated key pair, verify(message,
\* sign(message, priv), pub) is true; it is false for a message that differs from
\* the signed one in a single byte and false for the public key of another
\* generated key pair.
C14_SignVerify ==
    ret.op = "sign/verify"
    => /\ ret.out.tag = "Ok"
       /\ ret.out.val.verified
       /\ ret.args.altered # ret.args.message => ~ret.out.val.verified_altered
       /\ ret.args.other # ret.args.key_pair.public_key => ~ret.out.val.verified_other

\* C14 witness: a signature checked against a message altered in one byte and
\* against another public key of the same algorithm
C14_Witness ==
    /\ ret.op = "sign/verify"
    /\ ret.out.tag = "Ok"
    /\ DiffersInOneByte(ret.args.message, ret.args.altered)
    /\ ret.args.other # ret.args.key_pair.public_key
    /\ ret.args.other.digest_function = ret.args.key_pair.public_key.digest_function

\* the number of places of a sequence that hold v
Count(seq, v) == Cardinality({i \in 1..Len(seq) : seq[i] = v})

\* b holds the leaves of a in another order
Reordered(a, b) ==
    /\ Len(a) = Len(b)
    /\ \A v \in LeafItems : Count(a, v) = Count(b, v)
    /\ a # b

LeafHash(leaves, i) == Hash(leaves[i])

\* C17: at every level with an odd number of nodes the trailing node is carried up
\* unchanged, every other node of the level above is the hash of its two children
\* concatenated; the root of one leaf is the hash of that leaf and the root of three
\* leaves is H(H(h1 ++ h2) ++ h3).
C17_OddNodeCarried ==
    (ret.op = "MerkleTree::build" /\ Len(ret.args) > 0)
    => LET tree == ret.out.val
           levels == tree.levels
       IN  /\ levels[1] = [i \in 1..Len(ret.args) |-> LeafHash(ret.args, i)]
           /\ Len(levels[Len(levels)]) = 1
           /\ tree.root = levels[Len(levels)][1]
           /\ \A k \in 1..(Len(levels) - 1) :
                /\ Len(levels[k + 1]) = (Len(levels[k]) + 1) \div 2
                /\ \A j \in 1..(Len(levels[k]) \div 2) :
                     levels[k + 1][j] = Hash(levels[k][2 * j - 1] \o levels[k][2 * j])
                /\ Len(levels[k]) % 2 = 1
                     => levels[k + 1][Len(levels[k + 1])] = levels[k][Len(levels[k])]
           /\ Len(ret.args) = 1 => tree.root = LeafHash(ret.args, 1)
           /\ Len(ret.args) = 3
                => tree.root = Hash(Hash(LeafHash(ret.args, 1) \o LeafHash(ret.args, 2))
                                    \o LeafHash(ret.args, 3))

\* C17 witness: a tree of five leaves, whose first and second levels are odd
C17_Witness ==
    /\ ret.op = "MerkleTree::build"
    /\ Len(ret.args) = 5
    /\ Len(ret.out.val.levels) = 4
    /\ ret.out.val.levels[3][2] = LeafHash(ret.args, 5)

\* C20: KeyPair::new compares the algorithm tags before it derives the public key:
\* with different tags it returns the KeyGen error "Mismatch of key algorithms", also
\* when the private payload is no secret of its algorithm; with equal tags and a
\* derived key different from the public key it returns the KeyGen error "Key pair
\* mismatch".
C20_TagsCheckedFirst ==
    ret.op = "KeyPair::new"
    => LET public == ret.args.public_key
           private == ret.args.private_key
       IN  /\ private.digest_function # public.digest_function
                => ret.out = Err(Error("KeyGen", "Mismatch of key algorithms"))
           /\ (/\ private.digest_function = public.digest_function
               /\ Derived(private).tag = "Ok"
               /\ Derived(private).val # public)
                => ret.out = Err(Error("KeyGen", "Key pair mismatch"))

\* C20 witness: keys of different tags, the private payload refused by its scheme
C20_Witness ==
    /\ ret.op = "KeyPair::new"
    /\ ret.args.private_key.digest_function # ret.args.public_key.digest_function
    /\ Derived(ret.args.private_key).tag = "Err"
    /\ ret.out.tag = "Err"

C21_TaggedWithConfiguredAlgorithm ==
    /\ (ret.op = "KeyPair::generate_with_configuration" /\ ret.out.tag = "Ok")
        => /\ ret.out.val.public_key.digest_function = ret.args.algorithm
           /\ ret.out.val.private_key.digest_function = ret.args.algorithm
    /\ ret.op = "KeyPair::generate"
        => /\ ret.out.tag = "Ok"
           /\ ret.out.val.public_key.digest_function = "Ed25519"
           /\ ret.out.val.private_key.digest_function = "Ed25519"
           /\ \E entropy \in Secrets :
                ret.out = generate_with_configuration(
                              [key_gen_option |-> [kind |-> "None", seed |-> <<>>, key |-> NoKey],
                               algorithm |-> "Ed25519"], entropy, "KeyGenError")

\* C21 witness: a key pair generated from a private key whose tag is not the
\* configuration's algorithm
C21_Witness ==
    /\ ret.op = "KeyPair::generate_with_configuration"
    /\ ret.out.tag = "Ok"
    /\ ret.args.key_gen_option.kind = "FromPrivateKey"
    /\ ret.args.key_gen_option.key.digest_function # ret.args.algorithm

\* the variant of Error each variant of ursa::CryptoError is mapped to
ErrorClassOf ==
    [NoSuchAlgorithm |-> "NoSuchAlgorithm", ParseError |-> "Parse",
     SigningError |-> "Signing", KeyGenError |-> "KeyGen",
     DigestGenError |-> "DigestGen", GeneralError |-> "Other"]

\* C22: every scheme error is mapped to one variant of Error with its detail kept:
\* NoSuchAlgorithm to NoSuchAlgorithm, ParseError(d) to Parse(d), SigningError(d) to
\* Signing(d), KeyGenError(d) to KeyGen(d), DigestGenError(d) to DigestGen(d),
\* GeneralError(d) to Other(d); the unit error NoSuchAlgorithm to Error::NoSuchAlgorithm.
C22_ErrorMapping ==
    /\ ret.op = "Error::from(ursa::CryptoError)"
        => /\ ret.out.val.class = ErrorClassOf[ret.args.variant]
           /\ ret.args.variant # "NoSuchAlgorithm" => ret.out.val.detail = ret.args.detail
    /\ ret.op = "Error::from(NoSuchAlgorithm)" => ret.out.val.class = "NoSuchAlgorithm"

\* C22 witness: a SigningError with a detail, converted
C22_Witness ==
    /\ ret.op = "Error::from(ursa::CryptoError)"
    /\ ret.args.variant = "SigningError"
    /\ ret.args.detail # ""

\* the bytes a text of hex digit pairs names
BytesOfHex(hex) ==
    [i \in 1..(Len(hex) \div 2) |-> 16 * HexVal(hex[2 * i - 1]) + HexVal(hex[2 * i])]

\* C23: hex decoding tolerates spaces and nothing else: hex_decode(s) equals
\* hex_decode of s without its spaces; it fails in the Parse class when s without
\* its spaces has odd length or holds a character that is no hex digit, and yields
\* the bytes otherwise; PrivateKey::from_hex and PublicKey::from_str return the same
\* for s and for s with spaces put in.
C23_SpacesTolerated ==
    /\ ret.op = "hex_decode"
        => LET hex == SelectSeq(ret.args, IsNotSpace)
               bad == Len(hex) % 2 = 1 \/ \E i \in 1..Len(hex) : ~IsHexDigit(hex[i])
           IN  /\ ret.out.val.decoded = ret.out.val.unspaced
               /\ bad => /\ ret.out.val.decoded.tag = "Err"
                          /\ ret.out.val.decoded.val.class = "Parse"
               /\ ~bad => ret.out.val.decoded = Ok(BytesOfHex(hex))
    /\ ret.op \in {"PrivateKey::from_hex/spaced", "PublicKey::from_str/spaced"}
        => ret.out.val.spaced = ret.out.val.plain

\* C23 witness: a private key text accepted with spaces put into it
C23_Witness ==
    /\ ret.op = "PrivateKey::from_hex/spaced"
    /\ ret.out.val.plain.tag = "Ok"
    /\ ret.args.spaced # ret.args.payload

\* C24: PrivateKey::from_hex_unchecked skips validation: it succeeds for every
\* (algorithm, hex) whose hex decodes, whatever the payload length; whenever
\* PrivateKey::from_hex succeeds, from_hex_unchecked succeeds too and returns an
\* equal key; from_hex_unchecked(alg, Display(k)) returns a key equal to k.
C24_UncheckedSkipsValidation ==
    /\ ret.op = "PrivateKey::from_hex/from_hex_unchecked"
        => /\ hex_crate_decode(SelectSeq(ret.args.payload, IsNotSpace)).tag = "Ok"
                => ret.out.val.unchecked.tag = "Ok"
           /\ ret.out.val.checked.tag = "Ok"
                => ret.out.val.unchecked = ret.out.val.checked
    /\ ret.op = "PrivateKey::to_string/from_hex_unchecked"
        => ret.out = Ok(ret.args.private_key)

\* C24 witness: a text from_hex refuses for its payload and from_hex_unchecked
\* accepts
C24_Witness ==
    /\ ret.op = "PrivateKey::from_hex/from_hex_unchecked"
    /\ ret.out.val.checked.tag = "Err"
    /\ ret.out.val.checked.val.class # "Parse"
    /\ ret.out.val.unchecked.tag = "Ok"

\* C24 witness of the round trip: a held key written and read back
C24_WitnessRoundTrip ==
    /\ ret.op = "PrivateKey::to_string/from_hex_unchecked"
    /\ ret.out.tag = "Ok"

\* the place of the last call of one of the names among the calls, 0 for none
LastCall(calls, ops) ==
    LET places == {i \in 1..Len(calls) : calls[i].op \in ops}
    IN  IF places = {} THEN 0 ELSE CHOOSE i \in places : \A j \in places : j <= i

\* C25: after any chain of builder calls on the default configuration,
\* key_gen_option is the option of the last use_seed or use_private_key call (none
\* if there was none) and algorithm is the argument of the last with_algorithm call
\* (Ed25519 if there was none); use_seed and use_private_key leave algorithm as it
\* was and with_algorithm leaves key_gen_option as it was.
C25_BuilderFrames ==
    LET calls == builder.calls
        option == LastCall(calls, {"use_seed", "use_private_key"})
        algorithm == LastCall(calls, {"with_algorithm"})
    IN  /\ option = 0 => builder.configuration.key_gen_option.kind = "None"
        /\ option # 0 /\ calls[option].op = "use_seed"
             => /\ builder.configuration.key_gen_option.kind = "UseSeed"
                /\ builder.configuration.key_gen_option.seed = calls[option].seed
        /\ option # 0 /\ calls[option].op = "use_private_key"
             => /\ builder.configuration.key_gen_option.kind = "FromPrivateKey"
                /\ builder.configuration.key_gen_option.key = calls[option].key
        /\ builder.configuration.algorithm
             = IF algorithm = 0 THEN "Ed25519" ELSE calls[algorithm].algorithm
        /\ \A i \in 1..Len(calls) :
             /\ calls[i].op \in {"use_seed", "use_private_key"}
                  => calls[i].after.algorithm = calls[i].before.algorithm
             /\ calls[i].op = "with_algorithm"
                  => calls[i].after.key_gen_option = calls[i].before.key_gen_option

\* C25 witness: a seed set, the algorithm changed after it, then a private key set
C25_Witness ==
    /\ Len(builder.calls) = 3
    /\ builder.calls[1].op = "use_seed"
    /\ builder.calls[2].op = "with_algorithm"
    /\ builder.calls[2].algorithm = "Secp256k1"
    /\ builder.calls[3].op = "use_private_key"

\* the order the claim gives the algorithms
AlgorithmBefore(a, b) ==
    <<a, b>> \in {<<"Ed25519", "Secp256k1">>, <<"Ed25519", "BlsNormal">>,
                  <<"Ed25519", "BlsSmall">>, <<"Secp256k1", "BlsNormal">>,
                  <<"Secp256k1", "BlsSmall">>, <<"BlsNormal", "BlsSmall">>}

\* lexicographic byte order: equal up to a place where p ends or has the lesser byte
PayloadBefore(p, q) ==
    \E i \in 1..Len(q) :
        /\ \A j \in 1..(i - 1) : j <= Len(p) /\ p[j] = q[j]
        /\ i > Len(p) \/ p[i] < q[i]

\* C26: PublicKey equality and ordering compare (digest_function, payload)
\* lexicographically: two keys are equal iff both fields are equal; keys of
\* different algorithms are ordered Ed25519 < Secp256k1 < BlsNormal < BlsSmall
\* whatever the payloads; keys of one algorithm are ordered by the lexicographic
\* byte order of the payloads; the order is total.
C26_KeyOrder ==
    ret.op = "PublicKey::cmp"
    => LET a == ret.args.a
           b == ret.args.b
           out == ret.out.val
       IN  /\ out.eq <=> (a.digest_function = b.digest_function /\ a.payload = b.payload)
           /\ out.applies <=> out.eq
           /\ out.ab = "Equal" <=> out.eq
           /\ a.digest_function # b.digest_function
                => (out.ab = "Less" <=> AlgorithmBefore(a.digest_function, b.digest_function))
           /\ a.digest_function = b.digest_function
                => (out.ab = "Less" <=> PayloadBefore(a.payload, b.payload))
           /\ out.ab \in {"Less", "Equal", "Greater"}
           /\ out.ab = "Less" <=> out.ba = "Greater"
           /\ out.ab = "Less" /\ out.bc = "Less" => out.ac = "Less"

\* C26 witness: a key of an earlier algorithm with the greater payload comes first
C26_Witness ==
    /\ ret.op = "PublicKey::cmp"
    /\ ret.args.a.digest_function = "Secp256k1"
    /\ ret.args.b.digest_function = "BlsNormal"
    /\ ret.args.a.payload = <<200>>
    /\ ret.args.b.payload = <<1>>
    /\ ret.out.val.ab = "Less"

\* C27: StringPredicateBox::applies returns, for every input and content: Equals,
\* input = content; Contains, content is a substring of input; StartsWith, content
\* is a prefix of input; EndsWith, content is a suffix of input; hence whenever
\* Equals(c) applies to an input, Contains(c), StartsWith(c) and EndsWith(c) apply.
C27_StringPredicates ==
    ret.op = "StringPredicateBox::applies"
    => LET input == ret.args.input
           content == ret.args.content
           out == ret.out.val
       IN  /\ out["Equals"] <=> input = content
           /\ out["Contains"]
                <=> \E pre \in Texts, post \in Texts : input = pre \o content \o post
           /\ out["StartsWith"] <=> \E post \in Texts : input = content \o post
           /\ out["EndsWith"] <=> \E pre \in Texts : input = pre \o content
           /\ out["Equals"]
                => out["Contains"] /\ out["StartsWith"] /\ out["EndsWith"]

\* C27 witness: a content that is a suffix of the input and no prefix of it
C27_Witness ==
    /\ ret.op = "StringPredicateBox::applies"
    /\ ret.args.content # <<>>
    /\ ret.out.val["EndsWith"]
    /\ ~ret.out.val["StartsWith"]
    /\ ret.out.val["Contains"]

\* a macro call that returns: pass! and deny! always, the others when their
\* condition is true
Returning(statement) == statement.macro \in {"pass!", "deny!"} \/ statement.e

\* the reason text the tests of the macros expect, validator.rs:224-273
ExpectedText(reason) ==
    CASE reason.form = "expr" -> reason.value
      [] reason.form = "format" -> "Reason: Format message"
      [] reason.form = "literal" /\ Len(reason.fmt) = 1 -> "Some reason"
      [] reason.form = "literal" /\ Len(reason.fmt) = 2 -> "Reason: Advanced format message"

\* C28: in a validator body made of pass_if!/deny_if!/pass!/deny! calls, the
\* returned Verdict is the one of the first call whose condition is true (pass! and
\* deny! being unconditional): Deny of the formatted reason for deny! and deny_if!,
\* Pass for pass! and pass_if!; a call whose condition is false falls through to
\* the next statement without effect; no statement after the first returning call
\* is executed.
C28_FirstReturningCall ==
    LET body == validator.body
        returning == {i \in 1..Len(body) : Returning(body[i])}
        first == IF returning = {} THEN Len(body) + 1
                 ELSE CHOOSE i \in returning : \A j \in returning : i <= j
    IN  /\ validator.pc > 0
            => /\ validator.pc <= first
               /\ validator.executed = [i \in 1..(validator.pc - 1) |-> i]
               /\ validator.verdict.tag = "None"
        /\ validator.pc = -1 /\ returning # {}
            => /\ validator.executed = [i \in 1..first |-> i]
               /\ validator.verdict
                    = IF body[first].macro \in {"pass!", "pass_if!"}
                      THEN [tag |-> "Pass"]
                      ELSE [tag |-> "Deny", reason |-> ExpectedText(body[first].reason)]
        /\ validator.pc = -1 /\ returning = {}
            => /\ validator.executed = [i \in 1..Len(body) |-> i]
               /\ validator.verdict.tag = "Trailing"

\* C28 witness: a deny_if! whose condition is false fell through, the next
\* deny_if! returned its formatted reason, and a pass! after it was not executed
C28_Witness ==
    /\ validator.pc = -1
    /\ Len(validator.body) = 3
    /\ validator.body[1].macro = "deny_if!"
    /\ ~validator.body[1].e
    /\ validator.body[2].macro = "deny_if!"
    /\ validator.body[2].reason.form = "format"
    /\ validator.body[3].macro = "pass!"
    /\ validator.verdict = [tag |-> "Deny", reason |-> "Reason: Format message"]
    /\ validator.executed = <<1, 2>>

====
